---- MODULE Spec2Model ----
(***************************************************************************)
(* Multi-agent traffic regulation (BDI agents, FIPA messages, routing).    *)
(* Times are in seconds; positions and distances are in centimetres and    *)
(* speeds in cm/s.  Other quantities that the source keeps as floats are   *)
(* kept exact by scaling:                                                  *)
(*   - pressures and downstream estimates are in quarters of a vehicle     *)
(*     (the neighbour average is sum/4),                                   *)
(*   - outflow estimates are in halves of a vehicle (saturation flow is    *)
(*     0.5 vehicle per second),                                            *)
(*   - arrival offsets are in 1/833 s (avg_speed = 8.33 m/s).              *)
(***************************************************************************)
EXTENDS Integers, Sequences, FiniteSets, TLC

VARIABLES
    intersections,   \* the intersection agents of the schedule (TrafficModel.intersections)
    vehicles,        \* the vehicle agents of the schedule (TrafficModel.vehicles)
    road_network,    \* TrafficModel.road_network
    router,          \* TrafficModel.router
    incident,        \* TrafficModel.incident_scenario, empty when there is none
    rush,            \* the rush-hour scenario: vehicles it may create, and its counter
    totals,          \* vehicles created and arrived
    requests,        \* history: the emergency requests of the last two ticks
    wrote_direct,    \* history: an agent has written into another agent's inbox
    same_tick,       \* history: an agent has handled a message written in the same tick
    routed,          \* history: the routes returned while edges were blocked
    cm,              \* the crisis manager agent
    cm_sent,         \* what the crisis manager has written into inboxes
    cnp_props,       \* the proposals the contractors make, in order
    cnp_next,        \* index of the next proposal to arrive
    ix,              \* the IntersectionAgent under study (record of its fields)
    use_q_learning,  \* TrafficModel.use_q_learning
    current_step,    \* TrafficModel.current_step
    time_step,       \* TrafficModel.time_step, read from the configuration
    sent,            \* messages the intersection wrote during its last step
    ix_vehicles,     \* the vehicle agents of the schedule around the intersection
    delivered,       \* number of messages delivered to the intersection so far
    observed         \* history: what the component under study was asked and answered

ixVars == <<ix, use_q_learning, current_step, sent, ix_vehicles, delivered>>

cnpVars == <<cm, cm_sent, cnp_props, cnp_next>>

simVars == <<intersections, vehicles, road_network, router, incident, rush, totals,
            requests, wrote_direct, same_tick, routed>>

vars == <<time_step, ixVars, cnpVars, simVars, observed>>

----------------------------------------------------------------------------
(* Bounds of the model *)

MaxTicks == 24           \* ticks explored under Max-Pressure
MaxQTicks == 10          \* ticks explored under Q-learning
MaxPressureTicks == 50   \* ticks explored for an intersection without neighbours
IxTimeStep == 5          \* configured time_step of the one-intersection runs
MaxMessages == 1         \* messages delivered to the intersection in one run
MaxProposals == 3        \* proposals made in one Contract-Net conversation
MaxCnpSteps == 3         \* steps of the crisis manager in a conversation
MaxSize == 3             \* MessageQueue.max_size (default 1000), scaled down
MaxAcks == 5             \* acknowledgements written between two steps
MaxMbSteps == 30         \* steps of the crisis manager while acknowledged

----------------------------------------------------------------------------
(* Program constants *)

MinGreenTime == 15
MaxGreenTime == 90
DefaultGreenTime == 30
CongestionThreshold == 10
NeighborSyncInterval == 10
MaxStaleAge == 30
PressureThreshold4 == 20       \* 5.0 vehicles, in quarters
LowPressure4 == 8              \* 2.0 vehicles, in quarters
MinFlow2 == 4                  \* 2.0 vehicles, in halves
MaxBonus == 20
DetectionRadius == 5000         \* 50 m

None == "None"
CrisisId == "crisis_manager"
ScenarioId == "scenario_manager"

Min(a, b) == IF a < b THEN a ELSE b
Max(a, b) == IF a > b THEN a ELSE b
Abs(a) == IF a < 0 THEN 0 - a ELSE a

----------------------------------------------------------------------------
(* Direction, TrafficLightState *)

Directions == {"north", "south", "east", "west"}
DirSeq == <<"north", "south", "east", "west">>
NSGroup == {"north", "south"}
EWGroup == {"east", "west"}
TrafficLightState == {"red", "yellow", "green"}

GroupOf(d) == IF d \in NSGroup THEN NSGroup ELSE EWGroup
OtherGroup(d) == IF d \in NSGroup THEN EWGroup ELSE NSGroup
PhaseGroup(p) == IF p = "NS" THEN NSGroup ELSE EWGroup

SumOver(f, S) ==
    LET RECURSIVE Sum(_)
        Sum(T) == IF T = {} THEN 0
                  ELSE LET x == CHOOSE y \in T : TRUE IN f[x] + Sum(T \ {x})
    IN Sum(S)

----------------------------------------------------------------------------
(* FIPAMessage *)

Lower(p) ==
    CASE p = "INFORM" -> "inform"
      [] p = "PROPOSE" -> "propose"
      [] p = "QUERY" -> "query"
      [] OTHER -> p

FIPAMessage(sender, receiver, performative, content, conversation_id) ==
    LET StandardPerformatives ==
            {"inform", "query-if", "query-ref", "propose", "accept-proposal",
             "reject-proposal", "request", "agree", "refuse", "failure", "confirm",
             "disconfirm", "not-understood", "cancel", "inform-congestion",
             "request-route", "coordinate"}
    IN
        \* __post_init__: a performative whose lower case is a standard one is
        \* replaced by that value, any other string is kept as written
    LET PostInit(p) == IF Lower(p) \in StandardPerformatives THEN Lower(p) ELSE p
    IN
    [sender |-> sender, receiver |-> receiver,
     performative |-> PostInit(performative), content |-> content,
     conversation_id |-> conversation_id]

\* the default of the field message_id: f"msg_{int(time.time() * 1000)}", with
\* the reading of the clock in microseconds
message_id_at(clock) == "msg_" \o ToString(clock \div 1000)

\* create_reply that links the reply to no message
create_reply_unlinked(message, performative, content, message_id) ==
    [self |-> message,
     reply |-> FIPAMessage(message.receiver, message.sender, performative, content,
                           message.conversation_id)
                 @@ [ontology |-> message.ontology, protocol |-> message.protocol,
                     reply_to |-> None, message_id |-> message_id]]

\* FIPAMessage.create_reply on a message with all the fields of the dataclass
\* that create_reply reads: [self |-> the message afterwards, reply |-> the
\* reply, whose message_id is the one the clock gives it]
create_reply(message, performative, content, message_id) ==
    [self |-> message,
     reply |-> FIPAMessage(message.receiver, message.sender, performative, content,
                           message.conversation_id)
                 @@ [ontology |-> message.ontology, protocol |-> message.protocol,
                     reply_to |-> message.message_id, message_id |-> message_id]]

----------------------------------------------------------------------------
(* Geometry *)

\* _calculate_distance, in centimetres: exact between axis-aligned positions,
\* rounded down to the centimetre between close positions and to the metre
\* between positions more than 300 m apart on an axis
calculate_distance(p, q) ==
        \* integer square root, by bisection
    LET ISqrt(n) ==
            LET RECURSIVE Bisect(_, _)
                Bisect(lo, hi) ==
                    IF lo >= hi THEN lo
                    ELSE CHOOSE root \in {IF mid * mid <= n THEN Bisect(mid, hi)
                                          ELSE Bisect(lo, mid - 1) :
                                              mid \in {(lo + hi + 1) \div 2}} : TRUE
            IN Bisect(0, Min(n, 46340))
    IN
    LET dx == Abs(p[1] - q[1])
        dy == Abs(p[2] - q[2])
    IN IF dx = 0 THEN dy
       ELSE IF dy = 0 THEN dx
       ELSE IF dx <= 30000 /\ dy <= 30000 THEN ISqrt(dx * dx + dy * dy)
       ELSE 100 * ISqrt((dx \div 100) * (dx \div 100) + (dy \div 100) * (dy \div 100))

\* _get_approach_direction
get_approach_direction(self_pos, vehicle_pos) ==
    LET dx == vehicle_pos[1] - self_pos[1]
        dy == vehicle_pos[2] - self_pos[2]
    IN IF Abs(dx) > Abs(dy)
       THEN (IF dx > 0 THEN "east" ELSE "west")
       ELSE (IF dy > 0 THEN "north" ELSE "south")

----------------------------------------------------------------------------
(* IntersectionAgent: construction and readers *)

\* IntersectionAgent.__init__ with _initialize_traffic_lights and
\* _initialize_beliefs.  neighbors is the list built by add_neighbor; beliefs
\* gives the timestamp of each belief of the store.
\* early_flip, last_force and cont_green are history fields: whether a green
\* light was ever turned red before min_green_time, the lights and timers
\* around the last _force_green call, and for how long the green group has
\* been green without interruption; emergency_log lists the emergency_priority
\* requests handled during the last step, with the lights around each;
\* last_change holds the lights and the stored green-wave phase around the
\* _change_traffic_light_phase call of the last step, the timers it left and
\* by how much it counted; last_coordination the lights and timers around
\* the _apply_neighbor_coordination call of the last step and the green-wave
\* phase it left.
IntersectionAgent(id, pos, nbrs) ==
    [unique_id |-> id,
     position |-> pos,
     neighbors |-> nbrs,
     traffic_lights |-> [d \in Directions |->
                            IF d \in NSGroup THEN "green" ELSE "red"],
     light_timers |-> [d \in Directions |-> 0],
     green_durations |-> [d \in Directions |-> DefaultGreenTime],
     queue_lengths |-> [d \in Directions |-> 0],
     congestion_level |-> None,
     neighbor_states |-> <<>>,
     green_wave_offset |-> 0,
     green_wave_phase |-> None,
     green_wave_active |-> FALSE,
     green_wave_timer |-> 0,
     message_inbox |-> <<>>,
     current_time |-> 0,
     beliefs |-> [t \in {"position", "traffic_state", "neighbors"} |-> 0],
     phase_changes |-> 0,
     early_flip |-> FALSE,
     last_force |-> [called |-> FALSE, target |-> "north",
                     lights_before |-> [d \in Directions |-> "red"],
                     timers_before |-> [d \in Directions |-> 0],
                     lights_after |-> [d \in Directions |-> "red"]],
     cont_green |-> 0,
     last_change |-> [called |-> FALSE,
                      lights_before |-> [d \in Directions |-> "red"],
                      lights_after |-> [d \in Directions |-> "red"],
                      timers_after |-> [d \in Directions |-> 0],
                      counted |-> 0,
                      wave_before |-> None,
                      wave_after |-> None],
     last_coordination |-> [called |-> FALSE,
                            lights_before |-> [d \in Directions |-> "red"],
                            timers_before |-> [d \in Directions |-> 0],
                            lights_after |-> [d \in Directions |-> "red"],
                            timers_after |-> [d \in Directions |-> 0],
                            wave_after |-> None],
     emergency_log |-> <<>>]

BeliefValidity == 10

\* BDIAgent.update_belief: the belief is stamped with the agent's time
update_belief(s, belief_type) ==
    [s EXCEPT !.beliefs = [t \in DOMAIN @ \cup {belief_type} |->
                              IF t = belief_type THEN s.current_time ELSE @[t]]]

\* remove_outdated_beliefs keeping a belief of exactly the validity duration
remove_outdated_beliefs_late(s) ==
    [s EXCEPT !.beliefs = [t \in {x \in DOMAIN @ :
                                     s.current_time - @[x] <= BeliefValidity} |-> @[t]]]

\* BDIAgent.remove_outdated_beliefs with Belief.is_valid
remove_outdated_beliefs(s) ==
    [s EXCEPT !.beliefs = [t \in {x \in DOMAIN @ :
                                     s.current_time - @[x] < BeliefValidity} |-> @[t]]]

\* _get_current_phase
get_current_phase(s) ==
    IF s.traffic_lights["north"] = "green" THEN "NS" ELSE "EW"

GreenDirs(s) == {d \in Directions : s.traffic_lights[d] = "green"}

\* the current_green_timer loop shared by the decision functions
current_green_timer(s) ==
    LET RECURSIVE M(_)
        M(S) == IF S = {} THEN 0
                ELSE LET x == CHOOSE y \in S : TRUE
                     IN Max(s.light_timers[x], M(S \ {x}))
    IN M(GreenDirs(s))

\* _get_phase_timer
get_phase_timer(s) ==
        \* first green direction in the order of self.directions
    LET FirstGreen(s_f) ==
            LET idx == {i \in 1..Len(DirSeq) : s_f.traffic_lights[DirSeq[i]] = "green"}
            IN IF idx = {} THEN None
               ELSE DirSeq[CHOOSE i \in idx : \A j \in idx : i <= j]
    IN
    IF FirstGreen(s) = None THEN 0
    ELSE Max(s.green_durations[FirstGreen(s)] - s.light_timers[FirstGreen(s)], 0)

\* _estimate_outflow, in halves of a vehicle
estimate_outflow(s) ==
    SumOver([d \in Directions |->
                 Min(2 * s.queue_lengths[d], time_step * get_phase_timer(s))],
            GreenDirs(s))

\* history bookkeeping around a light change from state s to state r
Track(s, r) ==
    [r EXCEPT
       !.early_flip = @ \/ (\E d \in Directions :
                               /\ s.traffic_lights[d] = "green"
                               /\ r.traffic_lights[d] # "green"
                               /\ s.light_timers[d] < MinGreenTime),
       !.cont_green = IF GreenDirs(r) # GreenDirs(s) THEN 0 ELSE @]

\* no green light has a timer below min_green_time
FloorMet(lights, timers) ==
    \A d \in Directions : lights[d] = "green" => timers[d] >= MinGreenTime

GroupIsGreen(lights, d) ==
    /\ \A x \in GroupOf(d) : lights[x] = "green"
    /\ \A x \in OtherGroup(d) : lights[x] = "red"

----------------------------------------------------------------------------
(* IntersectionAgent: light changes *)

\* _force_green refusing to act while a green timer is at most min_green_time
force_green_late(s, target_direction) ==
    IF \E d \in Directions : /\ s.traffic_lights[d] = "green"
                             /\ s.light_timers[d] <= MinGreenTime
    THEN s
    ELSE IF s.traffic_lights[target_direction] = "green"
    THEN s
    ELSE [s EXCEPT
            !.traffic_lights = [d \in Directions |->
                                   IF d \in GroupOf(target_direction)
                                   THEN "green" ELSE "red"],
            !.light_timers = [d \in Directions |-> 0],
            !.phase_changes = @ + 1]

\* _force_green
force_green(s, target_direction) ==
    IF \E d \in Directions : /\ s.traffic_lights[d] = "green"
                             /\ s.light_timers[d] < MinGreenTime
    THEN s
    ELSE IF s.traffic_lights[target_direction] = "green"
    THEN s
    ELSE LET green_group == GroupOf(target_direction)
             red_group == OtherGroup(target_direction)
         IN [s EXCEPT
               !.traffic_lights = [d \in Directions |->
                                      IF d \in green_group THEN "green"
                                      ELSE IF d \in red_group THEN "red"
                                      ELSE @[d]],
               !.light_timers = [d \in Directions |->
                                    IF d \in green_group \cup red_group
                                    THEN 0 ELSE @[d]],
               !.phase_changes = @ + 1]

\* a call of _force_green, with the history fields brought up to date
CallForceGreen(s, target_direction) ==
    LET r == force_green(s, target_direction)
    IN [Track(s, r) EXCEPT
          !.last_force = [called |-> TRUE, target |-> target_direction,
                          lights_before |-> s.traffic_lights,
                          timers_before |-> s.light_timers,
                          lights_after |-> r.traffic_lights]]

\* a phase change that turns the new group green and leaves the old one as
\* it was
change_phase_keeping_green(s) ==
    LET next_phase == IF get_current_phase(s) = "NS" THEN "EW" ELSE "NS"
    IN <<[s EXCEPT
           !.traffic_lights = [d \in Directions |->
                                  IF d \in PhaseGroup(next_phase) THEN "green"
                                  ELSE @[d]],
           !.light_timers = [d \in Directions |-> 0],
           !.phase_changes = @ + 1],
         TRUE>>

\* _change_traffic_light_phase; the result is <<state, return value>>
change_traffic_light_phase(s) ==
    IF GreenDirs(s) = {} THEN <<s, FALSE>>
    ELSE
    LET current_phase == get_current_phase(s)
        use_wave == s.green_wave_phase # None /\ ~s.green_wave_active
        next_phase == IF use_wave THEN s.green_wave_phase
                      ELSE IF current_phase = "NS" THEN "EW" ELSE "NS"
        new_green_group == PhaseGroup(next_phase)
        matching == {i \in 1..Len(s.neighbor_states) :
                        s.neighbor_states[i].state.phase = next_phase}
        neighbor_bonus ==
            IF matching = {} THEN 0
            ELSE Min(s.neighbor_states[CHOOSE i \in matching :
                        \A j \in matching : i <= j].state.outflow_estimate,
                     MaxBonus)
    IN <<[s EXCEPT
           !.green_wave_phase = IF use_wave THEN None ELSE @,
           !.green_wave_offset = IF use_wave THEN 0 ELSE @,
           !.traffic_lights = [d \in Directions |->
                                  IF d \in new_green_group THEN "green" ELSE "red"],
           !.light_timers = [d \in Directions |-> 0],
           !.green_durations = [d \in Directions |->
               IF d \in new_green_group
               THEN Min(MinGreenTime + s.queue_lengths[d] * 2 + neighbor_bonus,
                        MaxGreenTime)
               ELSE @[d]],
           !.phase_changes = @ + 1],
         TRUE>>

----------------------------------------------------------------------------
(* IntersectionAgent: phase decision *)

QueueSum(q) == SumOver(q, DOMAIN q)

\* _estimate_downstream_queue, in quarters of a vehicle: the first stored
\* neighbour state with a non-empty queue_lengths decides, whatever its age
estimate_downstream_queue(s, direction) ==
    LET filled == {i \in 1..Len(s.neighbor_states) :
                      DOMAIN s.neighbor_states[i].state.queue_lengths # {}}
    IN IF filled # {}
       THEN LET q == s.neighbor_states[CHOOSE i \in filled :
                        \A j \in filled : i <= j].state.queue_lengths
            IN Min((4 * QueueSum(q)) \div Cardinality(DOMAIN q), 40)
       ELSE IF s.traffic_lights[direction] = "green" THEN 8 ELSE 20

\* pressure of a phase, in quarters of a vehicle
PhasePressure(s, phase) ==
    SumOver([d \in Directions |->
                 4 * s.queue_lengths[d] - estimate_downstream_queue(s, d)],
            PhaseGroup(phase))

\* the Max-Pressure decision without its min_green_time floor
max_pressure_no_floor(s) ==
    LET current_phase == get_current_phase(s)
        max_pressure_phase ==
            IF PhasePressure(s, "NS") >= PhasePressure(s, "EW") THEN "NS" ELSE "EW"
    IN \/ /\ max_pressure_phase # current_phase
          /\ PhasePressure(s, max_pressure_phase) - PhasePressure(s, current_phase)
                 > PressureThreshold4
       \/ current_green_timer(s) > MaxGreenTime

\* _max_pressure_decision forcing the change as soon as the green timer has
\* reached max_green_time
max_pressure_decision_at_max(s) ==
    LET timer == current_green_timer(s)
        current_phase == get_current_phase(s)
        max_pressure_phase ==
            IF PhasePressure(s, "NS") >= PhasePressure(s, "EW") THEN "NS" ELSE "EW"
        max_pressure_value == PhasePressure(s, max_pressure_phase)
        current_pressure_value == PhasePressure(s, current_phase)
        planned == s.green_durations[IF current_phase = "NS" THEN "north" ELSE "east"]
    IN IF timer < MinGreenTime THEN FALSE
       ELSE IF /\ max_pressure_phase # current_phase
               /\ max_pressure_value - current_pressure_value > PressureThreshold4
       THEN TRUE
       ELSE IF timer >= MaxGreenTime THEN TRUE
       ELSE IF timer > planned /\ current_pressure_value < LowPressure4 THEN TRUE
       ELSE FALSE

\* _max_pressure_decision
max_pressure_decision(s) ==
    LET timer == current_green_timer(s)
        current_phase == get_current_phase(s)
        max_pressure_phase ==
            IF PhasePressure(s, "NS") >= PhasePressure(s, "EW") THEN "NS" ELSE "EW"
        max_pressure_value == PhasePressure(s, max_pressure_phase)
        current_pressure_value == PhasePressure(s, current_phase)
        planned == s.green_durations[IF current_phase = "NS" THEN "north" ELSE "east"]
    IN IF timer < MinGreenTime THEN FALSE
       ELSE IF /\ max_pressure_phase # current_phase
               /\ max_pressure_value - current_pressure_value > PressureThreshold4
       THEN TRUE
       ELSE IF timer > MaxGreenTime THEN TRUE
       ELSE IF timer > planned /\ current_pressure_value < LowPressure4 THEN TRUE
       ELSE FALSE

\* _q_learning_decision: below min_green_time the answer is False; above it
\* the epsilon-greedy draw (epsilon never falls below epsilon_min = 0.01)
\* can produce either action, so the drawn action is an input
q_learning_decision(s, action) ==
    IF current_green_timer(s) < MinGreenTime THEN FALSE
    ELSE action = "change"

\* _should_change_phase; the result is <<state, return value>>
should_change_phase(s, q_learning, action) ==
    LET timer == s.green_wave_timer - time_step
        s1 == IF s.green_wave_active
              THEN [s EXCEPT !.green_wave_timer = timer,
                             !.green_wave_active = (timer > 0)]
              ELSE s
    IN IF s.green_wave_active /\ timer > 0
       THEN <<s1, FALSE>>
       ELSE <<s1, IF q_learning THEN q_learning_decision(s1, action)
                  ELSE max_pressure_decision(s1)>>

----------------------------------------------------------------------------
(* IntersectionAgent: neighbour coordination *)

\* _schedule_green_wave forcing the target phase whatever the offset, once
\* the current green has lasted min_green_time
schedule_green_wave_at_once(s, target_phase, offset, expected_flow) ==
    IF get_current_phase(s) = target_phase
    THEN LET extra_time == Min(expected_flow, MaxGreenTime)
         IN [s EXCEPT !.green_durations = [d \in Directions |->
                IF s.traffic_lights[d] = "green"
                THEN Min(@[d] + extra_time, MaxGreenTime) ELSE @[d]]]
    ELSE IF current_green_timer(s) >= MinGreenTime
    THEN [CallForceGreen(s, IF target_phase = "NS" THEN "north" ELSE "east")
            EXCEPT !.green_wave_active = TRUE,
                   !.green_wave_phase = target_phase,
                   !.green_wave_timer = Min(expected_flow, MaxGreenTime)]
    ELSE s

\* _schedule_green_wave; offset is in 1/833 s, expected_flow in halves
schedule_green_wave(s, target_phase, offset, expected_flow) ==
    IF get_current_phase(s) = target_phase
    THEN LET extra_time == Min(expected_flow, MaxGreenTime)
         IN [s EXCEPT !.green_durations = [d \in Directions |->
                IF s.traffic_lights[d] = "green"
                THEN Min(@[d] + extra_time, MaxGreenTime) ELSE @[d]]]
    ELSE IF offset <= 833 * MinGreenTime
    THEN IF current_green_timer(s) >= MinGreenTime
         THEN [CallForceGreen(s, IF target_phase = "NS" THEN "north" ELSE "east")
                 EXCEPT !.green_wave_active = TRUE,
                        !.green_wave_phase = target_phase,
                        !.green_wave_timer = Min(expected_flow, MaxGreenTime)]
         ELSE s
    ELSE [s EXCEPT !.green_wave_offset = offset,
                   !.green_wave_phase = target_phase]

\* _apply_neighbor_coordination
apply_neighbor_coordination(s) ==
        \* the scan of _apply_neighbor_coordination: <<flow, phase, offset>> of the
        \* fresh neighbour state with the largest outflow, the first one on a tie
    LET BestIncoming(s_b) ==
            LET RECURSIVE Scan(_, _)
                Scan(i, best) ==
                    IF i > Len(s_b.neighbor_states) THEN best
                    ELSE LET state == s_b.neighbor_states[i].state
                             age == s_b.current_time - state.timestamp
                             arrival_in ==
                                 833 * state.phase_timer_remaining
                                 + calculate_distance(s_b.position, state.position)
                         IN IF age > MaxStaleAge THEN Scan(i + 1, best)
                            ELSE IF state.position = None \/ state.outflow_estimate <= 0
                            THEN Scan(i + 1, best)
                            ELSE IF state.outflow_estimate > best[1]
                            THEN Scan(i + 1, <<state.outflow_estimate, state.phase, arrival_in>>)
                            ELSE Scan(i + 1, best)
            IN Scan(1, <<0, None, 0>>)
    IN
    IF s.neighbor_states = <<>> THEN s
    ELSE LET best == BestIncoming(s)
         IN IF best[2] # None /\ best[1] >= MinFlow2
            THEN schedule_green_wave(s, best[2], best[3], best[1])
            ELSE s

----------------------------------------------------------------------------
(* IntersectionAgent: messages *)
(* A handler works on a context [s |-> agent state, out |-> messages it    *)
(* wrote, in order]; an entry of out is [to |-> agent id, msg |-> message, *)
(* via |-> "direct" for a call of the receiver's receive_message and       *)
(* "outbox" for send_message].                                             *)

Ctx(s, out) == [s |-> s, out |-> out]

\* dict.get(key, default)
Get(content, key, default) ==
    IF key \in DOMAIN content THEN content[key] ELSE default

Direct(to, msg) == [to |-> to, msg |-> msg, via |-> "direct"]

MaxCapacity == CongestionThreshold * Cardinality(Directions)

\* _handle_cfp whose proposal names no message it replies to
handle_cfp_unlinked(c, message, agents) ==
    IF QueueSum(c.s.queue_lengths) <= 28 /\ message.sender \in agents
    THEN Ctx(c.s, Append(c.out, Direct(message.sender,
            FIPAMessage(c.s.unique_id, message.sender, "propose",
                [task |-> Get(message.content, "task", "priority_delegation"),
                 availability |-> MaxCapacity - QueueSum(c.s.queue_lengths),
                 current_load |-> QueueSum(c.s.queue_lengths),
                 position |-> c.s.position],
                message.conversation_id)
            @@ [protocol |-> "fipa-contract-net", reply_to |-> None])))
    ELSE c

\* _handle_cfp with propose_in_cnp; a message of the model carries a
\* message_id where a handler reads it
handle_cfp(c, message, agents) ==
        \* _handle_cfp: current_load, and whether 1.0 - load/40 > 0.3 holds in
        \* double arithmetic (1.0 - 28/40 evaluates to 0.30000000000000004)
    LET CurrentLoad(s) == QueueSum(s.queue_lengths)
    IN
    LET AvailabilityAbove(load) == load <= 28
    IN
    IF AvailabilityAbove(CurrentLoad(c.s)) /\ message.sender \in agents
    THEN Ctx(c.s, Append(c.out, Direct(message.sender,
            FIPAMessage(c.s.unique_id, message.sender, "propose",
                [task |-> Get(message.content, "task", "priority_delegation"),
                 availability |-> MaxCapacity - CurrentLoad(c.s),
                 current_load |-> CurrentLoad(c.s),
                 position |-> c.s.position],
                message.conversation_id)
            @@ [protocol |-> "fipa-contract-net",
                reply_to |-> Get(message, "message_id", None)])))
    ELSE c

\* _execute_cnp_task
execute_cnp_task(c, message) ==
    IF /\ Get(message.content, "task", "priority_delegation") = "priority_delegation"
       /\ Get(message.content, "priority_direction", None) \in Directions
    THEN Ctx(CallForceGreen(c.s, message.content.priority_direction), c.out)
    ELSE c

\* a handler that forces the green and writes no acknowledgement
handle_emergency_priority_unanswered(c, message, agents) ==
    LET approach_dir ==
            get_approach_direction(c.s.position, message.content.vehicle_position)
        called == CallForceGreen(c.s, approach_dir)
    IN Ctx([called EXCEPT !.emergency_log = Append(@,
               [vehicle_id |-> Get(message.content, "vehicle_id", None),
                approach |-> approach_dir,
                lights_before |-> c.s.traffic_lights,
                timers_before |-> c.s.light_timers,
                lights_after |-> called.traffic_lights])],
           c.out)

\* _handle_emergency_priority
handle_emergency_priority(c, message, agents) ==
    LET approach_dir ==
            get_approach_direction(c.s.position, message.content.vehicle_position)
        called == CallForceGreen(c.s, approach_dir)
        forced == [called EXCEPT !.emergency_log = Append(@,
                      [vehicle_id |-> Get(message.content, "vehicle_id", None),
                       approach |-> approach_dir,
                       lights_before |-> c.s.traffic_lights,
                       timers_before |-> c.s.light_timers,
                       lights_after |-> called.traffic_lights])]
        response == FIPAMessage(c.s.unique_id, message.sender, "INFORM",
                        [type |-> "emergency_acknowledged",
                         green_direction |-> approach_dir,
                         intersection |-> c.s.unique_id],
                        None)
    IN IF Get(message.content, "vehicle_position", None) = None THEN c
       ELSE IF message.sender \in agents
       THEN Ctx(forced, Append(c.out, Direct(message.sender, response)))
       ELSE Ctx(forced, c.out)

\* IntersectionAgent.handle_message
ix_handle_message(c, message, agents) ==
        \* the neighbor_states[message.sender] = content assignment of a dict
    LET PutNeighborState(states, id, content) ==
            IF \E i \in 1..Len(states) : states[i].id = id
            THEN [i \in 1..Len(states) |->
                     IF states[i].id = id THEN [id |-> id, state |-> content]
                     ELSE states[i]]
            ELSE Append(states, [id |-> id, state |-> content])
    IN
        \* the level given to a congestion content that has no 'level' key;
        \* congestion_level is in tenths
    LET CongestionLevelOf(content) ==
            LET raw == Get(content, "congestion_level", 0)
            IN IF raw >= 8 THEN "fort" ELSE IF raw >= 5 THEN "moyen" ELSE "faible"
    IN
    IF /\ message.performative \in {"INFORM", "inform"}
       /\ Get(message.content, "type", "") = "neighbor_state"
    THEN Ctx([c.s EXCEPT !.neighbor_states =
                 PutNeighborState(@, message.sender, message.content)], c.out)
    ELSE IF /\ message.performative \in {"INFORM", "inform"}
            /\ Get(message.content, "type", "") \in {"congestion", "incident_report"}
    THEN Ctx([update_belief(c.s, "congestion") EXCEPT
                 !.congestion_level = CongestionLevelOf(message.content)],
             c.out)
    ELSE IF message.performative = "request"
    THEN IF Get(message.content, "type", "") = "call_for_proposals"
         THEN handle_cfp(c, message, agents)
         ELSE IF Get(message.content, "type", "") = "emergency_priority"
         THEN handle_emergency_priority(c, message, agents)
         ELSE c
    ELSE IF message.performative = "accept-proposal"
    THEN execute_cnp_task(c, message)
    ELSE c

\* BDIAgent.process_messages for an intersection
ix_process_messages(c0, agents) ==
    LET RECURSIVE Go(_, _)
        Go(i, c) == IF i > Len(c0.s.message_inbox) THEN c
                    ELSE Go(i + 1, ix_handle_message(c, c0.s.message_inbox[i], agents))
        r == Go(1, c0)
    IN Ctx([r.s EXCEPT !.message_inbox = <<>>], r.out)

----------------------------------------------------------------------------
(* IntersectionAgent: the BDI step *)
(* The world an agent reads is w = [vehicles |-> sequence of the vehicle   *)
(* agents of the schedule as [unique_id, position, active, ...],           *)
(* agents |-> ids of the agents of the schedule, current_step,             *)
(* use_q_learning].                                                        *)

\* _count_vehicles followed by the queue_lengths update of perceive
count_vehicles(s, vehicle_agents) ==
    [d \in Directions |->
        Cardinality({i \in 1..Len(vehicle_agents) :
            /\ calculate_distance(s.position, vehicle_agents[i].position) < DetectionRadius
            /\ get_approach_direction(s.position, vehicle_agents[i].position) = d})]

\* IntersectionAgent.perceive
ix_perceive(c, w) ==
    LET MaxQueue(q) == CHOOSE m \in {q[d] : d \in DOMAIN q} : \A d \in DOMAIN q : q[d] <= m
    IN
    LET q == count_vehicles(c.s, w.vehicles)
        level == IF 2 * MaxQueue(q) > 3 * CongestionThreshold THEN "fort"
                 ELSE IF MaxQueue(q) > CongestionThreshold THEN "moyen"
                 ELSE "faible"
    IN ix_process_messages(
           Ctx([update_belief(update_belief(c.s, "congestion"), "traffic_state") EXCEPT
                  !.queue_lengths = q, !.congestion_level = level], c.out),
           w.agents)

\* _broadcast_congestion_info: one and the same INFORM written into the
\* inbox of every active vehicle within 500 m
broadcast_congestion_info(c, w, congestion_level) ==
    LET message == FIPAMessage(c.s.unique_id, "broadcast", "INFORM",
                       [type |-> "congestion",
                        congestion_level |-> congestion_level,
                        location |-> c.s.position],
                       None)
        RECURSIVE Go(_, _)
        Go(i, out) ==
            IF i > Len(w.vehicles) THEN out
            ELSE IF /\ w.vehicles[i].active
                    /\ calculate_distance(c.s.position, w.vehicles[i].position) <= 50000
            THEN Go(i + 1, Append(out, Direct(w.vehicles[i].unique_id, message)))
            ELSE Go(i + 1, out)
    IN Ctx(c.s, Go(1, c.out))

\* _broadcast_state_to_neighbors
broadcast_state_to_neighbors(c) ==
    LET state_content ==
            [type |-> "neighbor_state",
             phase |-> get_current_phase(c.s),
             phase_timer_remaining |-> get_phase_timer(c.s),
             queue_lengths |-> c.s.queue_lengths,
             outflow_estimate |-> estimate_outflow(c.s),
             position |-> c.s.position,
             timestamp |-> c.s.current_time]
        RECURSIVE Go(_, _)
        Go(i, out) ==
            IF i > Len(c.s.neighbors) THEN out
            ELSE Go(i + 1, Append(out, Direct(c.s.neighbors[i],
                     FIPAMessage(c.s.unique_id, c.s.neighbors[i], "INFORM",
                                 state_content, None))))
    IN LET r == apply_neighbor_coordination(c.s)
       IN Ctx([r EXCEPT !.last_coordination =
                  [called |-> TRUE,
                   lights_before |-> c.s.traffic_lights,
                   timers_before |-> c.s.light_timers,
                   lights_after |-> r.traffic_lights,
                   timers_after |-> r.light_timers,
                   wave_after |-> r.green_wave_phase]],
              Go(1, c.out))

\* IntersectionAgent.deliberate followed by BDIAgent.execute_intentions:
\* the intentions are created, and then run, in the order
\* CHANGE_LIGHT_TIMING, BROADCAST_CONGESTION, NEGOTIATE_WITH_NEIGHBOR
ix_deliberate_execute(c, w, action) ==
    LET CallChangePhase(s) ==
            LET r == change_traffic_light_phase(s)
            IN <<[Track(s, r[1]) EXCEPT
                    !.last_change = [called |-> r[2],
                                     lights_before |-> s.traffic_lights,
                                     lights_after |-> r[1].traffic_lights,
                                     timers_after |-> r[1].light_timers,
                                     counted |-> r[1].phase_changes - s.phase_changes,
                                     wave_before |-> s.green_wave_phase,
                                     wave_after |-> r[1].green_wave_phase]],
                 r[2]>>
    IN
    LET ticked == [c.s EXCEPT
                     !.light_timers = [d \in Directions |-> @[d] + time_step],
                     !.cont_green = Min(@ + time_step, MaxGreenTime + 2 * time_step)]
        decided == should_change_phase(ticked, w.use_q_learning, action)
        broadcast == decided[1].congestion_level = "fort"
        sync_steps == Max(1, NeighborSyncInterval \div time_step)
        negotiate == /\ Len(c.s.neighbors) > 0
                     /\ w.current_step % sync_steps = 0
        c1 == Ctx(IF decided[2] THEN CallChangePhase(decided[1])[1] ELSE decided[1],
                  c.out)
        c2 == IF broadcast THEN broadcast_congestion_info(c1, w, 8) ELSE c1
        c3 == IF negotiate THEN broadcast_state_to_neighbors(c2) ELSE c2
    IN c3

\* BDIAgent.step for an intersection; the result is a context whose out holds
\* the messages written during the step
ix_step(s, w, action) ==
    [ix_deliberate_execute(
         [ix_perceive(Ctx([s EXCEPT
                             !.emergency_log = <<>>,
                             !.last_change =
                                 IntersectionAgent(s.unique_id, s.position,
                                                   s.neighbors).last_change,
                             !.last_coordination =
                                 IntersectionAgent(s.unique_id, s.position,
                                                   s.neighbors).last_coordination],
                          <<>>), w)
          EXCEPT !.s = remove_outdated_beliefs(@)], w, action)
     EXCEPT !.s.current_time = @ + time_step]

\* BDIAgent.receive_message
receive_message(s, message) ==
    [s EXCEPT !.message_inbox = Append(@, message)]

----------------------------------------------------------------------------
(* CrisisManagerAgent *)
(* The world a crisis manager reads also has intersections |-> sequence of *)
(* the intersection agents of the schedule.                                *)

EmergencyVehicleType == {"ambulance", "bus_sotra", "pompier", "police"}
GreenWaveRadius == 30000        \* 300 m

\* CrisisManagerAgent.__init__; cnp_proposals is the dict as a sequence of
\* [id |-> conversation key, proposals |-> list] in insertion order
CrisisManagerAgent(id) ==
    [unique_id |-> id,
     position |-> <<0, 0>>,
     emergency_vehicles |-> <<>>,
     congested_intersections |-> <<>>,
     active_green_waves |-> <<>>,
     active_incidents |-> <<>>,
     interventions_count |-> 0,
     green_waves_created |-> 0,
     cnp_proposals |-> <<>>,
     message_inbox |-> <<>>,
     current_time |-> 0]

\* _detect_emergency_vehicles
detect_emergency_vehicles(s, w) ==
    LET found == SelectSeq(w.vehicles,
                     LAMBDA v : v.active /\ v.vehicle_type \in EmergencyVehicleType)
    IN [s EXCEPT !.emergency_vehicles =
           [i \in 1..Len(found) |->
               [id |-> found[i].unique_id,
                type |-> found[i].vehicle_type,
                position |-> found[i].position,
                destination |-> found[i].destination,
                route |-> found[i].current_route]]]

\* _assess_global_congestion: the congested_intersections of the belief
assess_global_congestion(s, w) ==
    LET over == SelectSeq(w.intersections,
                    LAMBDA a : QueueSum(a.queue_lengths)
                                   > CongestionThreshold * Cardinality(Directions))
    IN [s EXCEPT !.congested_intersections =
           [i \in 1..Len(over) |->
               [id |-> over[i].unique_id,
                position |-> over[i].position,
                queue_total |-> QueueSum(over[i].queue_lengths)]]]

\* cnp_proposals.get(key), [] when absent
StoredProposals(s, key) ==
    LET at == {i \in 1..Len(s.cnp_proposals) : s.cnp_proposals[i].id = key}
    IN IF at = {} THEN <<>> ELSE s.cnp_proposals[CHOOSE i \in at : TRUE].proposals

\* _evaluate_cnp_proposal
evaluate_cnp_proposal(c, message, agents) ==
        \* max(proposals, key=availability): the first proposal of largest availability
    LET BestProposal(proposals) ==
            proposals[CHOOSE i \in 1..Len(proposals) :
                         /\ \A j \in 1..Len(proposals) :
                               proposals[j].availability <= proposals[i].availability
                         /\ \A j \in 1..(i - 1) :
                               proposals[j].availability < proposals[i].availability]
    IN
    LET conversation_id == IF message.conversation_id = None THEN "default"
                           ELSE message.conversation_id
        proposals == Append(StoredProposals(c.s, conversation_id),
                            [sender |-> message.sender,
                             availability |-> Get(message.content, "availability", 0),
                             current_load |-> Get(message.content, "current_load", 0)])
        others == SelectSeq(c.s.cnp_proposals, LAMBDA e : e.id # conversation_id)
        best == BestProposal(proposals)
        Answer(proposal) ==
            IF proposal.sender = best.sender
            THEN FIPAMessage(c.s.unique_id, proposal.sender, "accept-proposal",
                             [task |-> "priority_delegation",
                              priority_direction |-> "north"],
                             conversation_id)
            ELSE FIPAMessage(c.s.unique_id, proposal.sender, "reject-proposal",
                             [reason |-> "better_proposal_received"],
                             conversation_id)
        RECURSIVE Go(_, _)
        Go(i, out) ==
            IF i > Len(proposals) THEN out
            ELSE IF proposals[i].sender \in agents
            THEN Go(i + 1, Append(out, Direct(proposals[i].sender, Answer(proposals[i]))))
            ELSE Go(i + 1, out)
    IN IF Len(proposals) >= 2
       THEN Ctx([c.s EXCEPT !.cnp_proposals = others], Go(1, c.out))
       ELSE Ctx([c.s EXCEPT !.cnp_proposals =
                    IF \E i \in 1..Len(@) : @[i].id = conversation_id
                    THEN [i \in 1..Len(@) |->
                             IF @[i].id = conversation_id
                             THEN [id |-> conversation_id, proposals |-> proposals]
                             ELSE @[i]]
                    ELSE Append(@, [id |-> conversation_id, proposals |-> proposals])],
                c.out)

\* _handle_incident_report
handle_incident_report(c, message) ==
    Ctx([c.s EXCEPT !.active_incidents = Append(@,
            [location |-> Get(message.content, "location", None),
             type |-> Get(message.content, "incident_type", "unknown"),
             severity |-> Get(message.content, "severity", "medium"),
             reported_by |-> message.sender,
             timestamp |-> c.s.current_time])],
        c.out)

\* CrisisManagerAgent.handle_message
cm_handle_message(c, message, agents) ==
    IF message.performative = "propose"
    THEN evaluate_cnp_proposal(c, message, agents)
    ELSE IF /\ message.performative = "inform"
            /\ Get(message.content, "type", None) = "incident_report"
    THEN handle_incident_report(c, message)
    ELSE c

\* BDIAgent.process_messages for the crisis manager
cm_process_messages(c0, agents) ==
    LET RECURSIVE Go(_, _)
        Go(i, c) == IF i > Len(c0.s.message_inbox) THEN c
                    ELSE Go(i + 1, cm_handle_message(c, c0.s.message_inbox[i], agents))
        r == Go(1, c0)
    IN Ctx([r.s EXCEPT !.message_inbox = <<>>], r.out)

\* CrisisManagerAgent.perceive
cm_perceive(c, w) ==
    cm_process_messages(
        Ctx(assess_global_congestion(detect_emergency_vehicles(c.s, w), w), c.out),
        w.agents)

\* _create_green_wave for one emergency vehicle
create_green_wave(c, ev, w) ==
        \* the smallest of the distances from pos to the positions of a non-empty list
    LET MinDistance(pos, points) ==
            LET RECURSIVE Go(_, _)
                Go(i, m) == IF i > Len(points) THEN m
                            ELSE Go(i + 1, Min(m, calculate_distance(pos, points[i])))
            IN Go(2, calculate_distance(pos, points[1]))
    IN
    LET near == SelectSeq(w.intersections,
                    LAMBDA a : MinDistance(a.position,
                                   IF ev.route # <<>> THEN ev.route
                                   ELSE <<ev.position>>) < GreenWaveRadius)
        Request(a) ==
            FIPAMessage(c.s.unique_id, a.unique_id, "request",
                        [type |-> "emergency_priority",
                         vehicle_id |-> ev.id,
                         vehicle_type |-> ev.type,
                         vehicle_position |-> ev.position,
                         priority |-> "absolute"],
                        None)
        out == c.out \o [i \in 1..Len(near) |-> Direct(near[i].unique_id, Request(near[i]))]
    IN IF Len(near) > 0
       THEN Ctx([c.s EXCEPT
                   !.green_waves_created = @ + 1,
                   !.interventions_count = @ + 1,
                   !.active_green_waves = Append(@,
                       [vehicle_id |-> ev.id, vehicle_type |-> ev.type,
                        intersections_notified |-> Len(near),
                        timestamp |-> c.s.current_time])],
                out)
       ELSE c

\* _delegate_priority_via_cnp
delegate_priority_via_cnp(c, w) ==
        \* max(queue_lengths, key=queue_lengths.get): the first direction, in the
        \* order of the dict, whose queue is the longest
    LET WorstDirection(q) ==
            DirSeq[CHOOSE i \in 1..Len(DirSeq) :
                      /\ \A j \in 1..Len(DirSeq) : q[DirSeq[j]] <= q[DirSeq[i]]
                      /\ \A j \in 1..(i - 1) : q[DirSeq[j]] < q[DirSeq[i]]]
    IN
        \* the agent of the world with the given id, as get_agent_by_id finds it
    LET IntersectionById(w_i, id) ==
            SelectSeq(w_i.intersections, LAMBDA a : a.unique_id = id)
    IN
    LET RECURSIVE Go(_, _)
        Go(i, r) ==
            IF i > Len(c.s.congested_intersections) THEN r
            ELSE LET info == c.s.congested_intersections[i]
                     found == IntersectionById(w, info.id)
                     content == [type |-> "call_for_proposals",
                                 task |-> "priority_delegation",
                                 congested_intersection |-> info.id,
                                 congestion_level |-> info.queue_total,
                                 direction |->
                                     IF found # <<>>
                                     THEN WorstDirection(found[1].queue_lengths)
                                     ELSE "unknown"]
                     copies == IF found = <<>> THEN <<>>
                               ELSE [k \in 1..Len(found[1].neighbors) |->
                                        Direct(found[1].neighbors[k],
                                               FIPAMessage(r.s.unique_id,
                                                           found[1].neighbors[k],
                                                           "request", content, None))]
                 IN Go(i + 1, Ctx([r.s EXCEPT !.interventions_count = @ + 1],
                                  r.out \o copies))
    IN Go(1, c)

\* CrisisManagerAgent.deliberate followed by BDIAgent.execute_intentions: one
\* green wave per emergency vehicle, then the delegation when an intersection
\* is congested
cm_deliberate_execute(c, w) ==
    LET RECURSIVE Waves(_, _)
        Waves(i, r) == IF i > Len(c.s.emergency_vehicles)
                       THEN IF c.s.congested_intersections # <<>>
                            THEN delegate_priority_via_cnp(r, w)
                            ELSE r
                       ELSE Waves(i + 1, create_green_wave(r, c.s.emergency_vehicles[i], w))
    IN Waves(1, c)

\* BDIAgent.step for the crisis manager
cm_step(s, w) ==
    [cm_deliberate_execute(cm_perceive(Ctx(s, <<>>), w), w)
     EXCEPT !.s.current_time = @ + time_step]

----------------------------------------------------------------------------
(* Road network and routers (algorithms/routing.py) *)
(* A node id is the pair of the node's coordinates in metres, standing for *)
(* the string "x_y"; edge weights and g scores are centimetres; f scores   *)
(* are hundredths of a centimetre so that the factors 1.3 and 1.15 are     *)
(* integers.                                                               *)

CacheSize == 200
CellSize == 10000               \* 100 m

\* Node.__init__: the id f"{x}_{y}" of a position
NodeId(position) == <<position[1] \div 100, position[2] \div 100>>

\* heapq.heappop: the smallest entry of a non-empty heap
HeapMin(heap) ==
        \* the characters of str(n), as code points
    LET Digits(n) ==
            LET RECURSIVE Go(_)
                Go(k) == IF k < 10 THEN <<48 + k>> ELSE Go(k \div 10) \o <<48 + (k % 10)>>
            IN Go(n)
    IN
        \* the characters of the id string "x_y"
    LET IdString(id) == Digits(id[1]) \o <<95>> \o Digits(id[2])
    IN
        \* Python's < on strings
    LET StrLess(a, b) ==
            LET RECURSIVE Go(_, _)
                Go(x, y) ==
                    IF y = <<>> THEN FALSE
                    ELSE IF x = <<>> THEN TRUE
                    ELSE IF Head(x) # Head(y) THEN Head(x) < Head(y)
                    ELSE Go(Tail(x), Tail(y))
            IN Go(a, b)
    IN
        \* Python's < on the (score, node_id) tuples of a heap
    LET EntryLess(a, b) ==
            \/ a[1] < b[1]
            \/ a[1] = b[1] /\ StrLess(IdString(a[2]), IdString(b[2]))
    IN
                 CHOOSE e \in heap : \A o \in heap \ {e} : EntryLess(e, o)

\* dict[key] = value on a function
Put(f, key, value) ==
    [k \in DOMAIN f \cup {key} |-> IF k = key THEN value ELSE f[k]]

\* RoadNetwork.__init__: nodes is the dict in insertion order, each node a
\* record [id, position, neighbors] with neighbors the dict id -> distance
\* in insertion order
RoadNetwork == [nodes |-> <<>>]

NodeIndex(net, id) == CHOOSE i \in 1..Len(net.nodes) : net.nodes[i].id = id
HasNode(net, id) == \E i \in 1..Len(net.nodes) : net.nodes[i].id = id
NodeOf(net, id) == net.nodes[NodeIndex(net, id)]
HasNeighbor(node, id) == \E i \in 1..Len(node.neighbors) : node.neighbors[i].id = id

\* RoadNetwork.add_node
add_node(net, position) ==
    [net EXCEPT !.nodes = Append(@, [id |-> NodeId(position),
                                     position |-> position,
                                     neighbors |-> <<>>])]

\* Node.add_neighbor: an existing key keeps its place in the dict
add_neighbor(node, neighbor_id, distance) ==
    IF HasNeighbor(node, neighbor_id)
    THEN [node EXCEPT !.neighbors =
             [i \in 1..Len(@) |-> IF @[i].id = neighbor_id
                                  THEN [id |-> neighbor_id, w |-> distance]
                                  ELSE @[i]]]
    ELSE [node EXCEPT !.neighbors = Append(@, [id |-> neighbor_id, w |-> distance])]

\* RoadNetwork.add_edge with the default weight
add_edge(net, node1_id, node2_id) ==
    IF ~HasNode(net, node1_id) \/ ~HasNode(net, node2_id) THEN net
    ELSE LET weight == calculate_distance(NodeOf(net, node1_id).position,
                                          NodeOf(net, node2_id).position)
             first == [net EXCEPT !.nodes[NodeIndex(net, node1_id)] =
                          add_neighbor(@, node2_id, weight)]
         IN [first EXCEPT !.nodes[NodeIndex(net, node2_id)] =
                add_neighbor(@, node1_id, weight)]

\* RoadNetwork.remove_edge
remove_edge(net, node1_id, node2_id) ==
    IF HasNode(net, node1_id) /\ HasNode(net, node2_id)
    THEN LET first == [net EXCEPT !.nodes[NodeIndex(net, node1_id)].neighbors =
                          SelectSeq(@, LAMBDA n : n.id # node2_id)]
         IN [first EXCEPT !.nodes[NodeIndex(net, node2_id)].neighbors =
                SelectSeq(@, LAMBDA n : n.id # node1_id)]
    ELSE net

\* RoadNetwork.add_temporary_blockage: _temporary_blockages is a field the
\* network has from the first call on
add_temporary_blockage(net, node1_id, node2_id, duration) ==
    Put(remove_edge(net, node1_id, node2_id), "temporary_blockages",
        Append(Get(net, "temporary_blockages", <<>>), <<node1_id, node2_id, duration>>))

\* RoadNetwork.restore_expired_blockages
restore_expired_blockages(net, current_time) ==
    IF "temporary_blockages" \notin DOMAIN net THEN net
    ELSE LET RECURSIVE Go(_, _, _)
             Go(i, restored, still_blocked) ==
                 IF i > Len(net.temporary_blockages)
                 THEN [restored EXCEPT !.temporary_blockages = still_blocked]
                 ELSE IF current_time >= net.temporary_blockages[i][3]
                 THEN Go(i + 1,
                         add_edge(restored, net.temporary_blockages[i][1],
                                  net.temporary_blockages[i][2]),
                         still_blocked)
                 ELSE Go(i + 1, restored,
                         Append(still_blocked, net.temporary_blockages[i]))
         IN Go(1, net, <<>>)

\* RoadNetwork.create_grid_network
create_grid_network(width, height, cell_size) ==
        \* range(0, limit, step)
    LET Range(limit, step) == [i \in 1..((limit + step - 1) \div step) |-> (i - 1) * step]
    IN
    LET xs == Range(width, cell_size)
        ys == Range(height, cell_size)
        RECURSIVE Nodes(_, _, _)
        Nodes(i, j, net) ==
            IF i > Len(xs) THEN net
            ELSE IF j > Len(ys) THEN Nodes(i + 1, 1, net)
            ELSE LET added == add_node(net, <<xs[i], ys[j]>>)
                 IN IF Len(added.nodes) > Len(net.nodes)
                    THEN Nodes(i, j + 1, added) ELSE net
        RECURSIVE Edges(_, _, _)
        Edges(i, j, net) ==
            IF i > Len(xs) THEN net
            ELSE IF j > Len(ys) THEN Edges(i + 1, 1, net)
            ELSE LET current_id == NodeId(<<xs[i], ys[j]>>)
                     right == IF xs[i] + cell_size < width
                              THEN add_edge(net, current_id,
                                            NodeId(<<xs[i] + cell_size, ys[j]>>))
                              ELSE net
                     down == IF ys[j] + cell_size < height
                             THEN add_edge(right, current_id,
                                           NodeId(<<xs[i], ys[j] + cell_size>>))
                             ELSE right
                 IN \* an edge adds no node
                    IF Len(down.nodes) = Len(net.nodes)
                    THEN Edges(i, j + 1, down) ELSE net
    IN Edges(1, 1, Nodes(1, 1, RoadNetwork))

\* RoadNetwork.get_nearest_node: the first node at the smallest distance,
\* None in an empty network
get_nearest_node(net, position) ==
    IF net.nodes = <<>> THEN None
    ELSE net.nodes[CHOOSE i \in 1..Len(net.nodes) :
            /\ \A j \in 1..Len(net.nodes) :
                  calculate_distance(position, net.nodes[i].position)
                      <= calculate_distance(position, net.nodes[j].position)
            /\ \A j \in 1..(i - 1) :
                  calculate_distance(position, net.nodes[i].position)
                      < calculate_distance(position, net.nodes[j].position)]

\* _reconstruct_path
reconstruct_path(came_from, end_id) ==
    LET RECURSIVE Back(_, _)
        Back(current_id, path) ==
            IF current_id \in DOMAIN came_from
            THEN Back(came_from[current_id], <<came_from[current_id]>> \o path)
            ELSE path
    IN Back(end_id, <<end_id>>)

\* heuristic of _a_star, times 100
heuristic(net, node_id, end_id) ==
    LET euclidean_dist == calculate_distance(NodeOf(net, node_id).position,
                                             NodeOf(net, end_id).position)
    IN IF euclidean_dist > 500000 THEN 115 * euclidean_dist
       ELSE 130 * euclidean_dist

\* AStarRouter._a_star: the list of node ids of the path; the empty list
\* stands for None (the callers test the result for truth)
a_star(net, start_id, end_id) ==
    LET \* one neighbour of the node popped, in the loop over its neighbours
        Relax(st, current_id, n) ==
            LET tentative_g == st.g_score[current_id] + n.w
            IN IF n.id \in st.closed_set THEN st
               ELSE IF n.id \notin DOMAIN st.g_score \/ tentative_g < st.g_score[n.id]
               THEN [st EXCEPT
                       !.came_from = Put(@, n.id, current_id),
                       !.g_score = Put(@, n.id, tentative_g),
                       !.open_set =
                           IF \E e \in @ : e[2] = n.id THEN @
                           ELSE @ \cup {<<100 * tentative_g + heuristic(net, n.id, end_id),
                                          n.id>>}]
               ELSE st
        RECURSIVE Neighbours(_, _, _)
        Neighbours(st, current_id, i) ==
            IF i > Len(NodeOf(net, current_id).neighbors) THEN st
            ELSE Neighbours(Relax(st, current_id, NodeOf(net, current_id).neighbors[i]),
                            current_id, i + 1)
        RECURSIVE Loop(_)
        Loop(st) ==
            IF st.open_set = {} THEN <<>>
            ELSE LET current == HeapMin(st.open_set)
                     popped == [st EXCEPT !.open_set = @ \ {current},
                                          !.closed_set = @ \cup {current[2]}]
                 IN IF current[2] = end_id
                    THEN reconstruct_path(st.came_from, end_id)
                    ELSE Loop(Neighbours(popped, current[2], 1))
    IN Loop([open_set |-> {<<0, start_id>>},
             came_from |-> <<>>,
             g_score |-> Put(<<>>, start_id, 0),
             closed_set |-> {}])

\* DijkstraRouter._dijkstra
dijkstra(net, start_id, end_id) ==
    LET Relax(st, current, n) ==
            LET new_distance == current[1] + n.w
            IN IF n.id \in st.visited THEN st
               ELSE IF n.id \notin DOMAIN st.distances \/ new_distance < st.distances[n.id]
               THEN [st EXCEPT
                       !.distances = Put(@, n.id, new_distance),
                       !.came_from = Put(@, n.id, current[2]),
                       !.pq = @ \cup {<<new_distance, n.id>>}]
               ELSE st
        RECURSIVE Neighbours(_, _, _)
        Neighbours(st, current, i) ==
            IF i > Len(NodeOf(net, current[2]).neighbors) THEN st
            ELSE Neighbours(Relax(st, current, NodeOf(net, current[2]).neighbors[i]),
                            current, i + 1)
        RECURSIVE Loop(_)
        Loop(st) ==
            IF st.pq = {} THEN <<>>
            ELSE LET current == HeapMin(st.pq)
                     popped == [st EXCEPT !.pq = @ \ {current}]
                 IN IF current[2] \in st.visited THEN Loop(popped)
                    ELSE IF current[2] = end_id
                    THEN reconstruct_path(st.came_from, end_id)
                    ELSE Loop(Neighbours([popped EXCEPT !.visited = @ \cup {current[2]}],
                                         current, 1))
    IN Loop([pq |-> {<<0, start_id>>},
             distances |-> Put(<<>>, start_id, 0),
             came_from |-> <<>>,
             visited |-> {}])

\* DynamicRouter.__init__ with the router it wraps (AStarRouter.__init__ or
\* DijkstraRouter.__init__); route_cache and traffic_weights are the dicts in
\* insertion order
DynamicRouter(use_astar) ==
    [use_astar |-> use_astar,
     traffic_weights |-> <<>>,
     route_cache |-> <<>>,
     cache_size |-> CacheSize,
     cache_hits |-> 0,
     cache_misses |-> 0,
     paths_calculated |-> 0]

\* _add_to_cache evicting the entry inserted last
add_to_cache_newest(r, cache_key, path) ==
    LET kept == IF Len(r.route_cache) >= r.cache_size
                THEN SubSeq(r.route_cache, 1, Len(r.route_cache) - 1)
                ELSE r.route_cache
    IN [r EXCEPT !.route_cache = Append(kept, [key |-> cache_key, path |-> path])]

\* _add_to_cache keeping only the two ends of the path
add_to_cache_ends(r, cache_key, path) ==
    LET kept == IF Len(r.route_cache) >= r.cache_size
                THEN Tail(r.route_cache) ELSE r.route_cache
    IN [r EXCEPT !.route_cache =
           Append(kept, [key |-> cache_key, path |-> <<path[1], path[Len(path)]>>])]

\* AStarRouter._add_to_cache
add_to_cache(r, cache_key, path) ==
    LET kept == IF Len(r.route_cache) >= r.cache_size
                THEN Tail(r.route_cache) ELSE r.route_cache
    IN [r EXCEPT !.route_cache = Append(kept, [key |-> cache_key, path |-> path])]

\* the waypoints as the positions of the nodes of the path
waypoints_of_nodes(net, path, start_pos, end_pos) ==
    [i \in 1..Len(path) |-> NodeOf(net, path[i]).position]

\* the waypoints of a path of node ids between two real positions
Waypoints(net, path, start_pos, end_pos) ==
    <<start_pos>>
        \o [i \in 1..(Len(path) - 2) |-> NodeOf(net, path[i + 1]).position]
        \o <<end_pos>>

\* AStarRouter.find_path: [r |-> the router afterwards, route |-> the
\* waypoints, empty for None]
astar_find_path(r, net, start_pos, end_pos) ==
    LET Answer(start_id, end_id, hit, path) ==
            LET counted == IF hit THEN [r EXCEPT !.cache_hits = @ + 1]
                           ELSE [r EXCEPT !.cache_misses = @ + 1]
                cached == IF ~hit /\ path # <<>>
                          THEN add_to_cache(counted, <<start_id, end_id>>, path)
                          ELSE counted
            IN IF start_id = end_id
               THEN [r |-> r, route |-> <<start_pos, end_pos>>]
               ELSE IF path # <<>>
               THEN [r |-> [cached EXCEPT !.paths_calculated = @ + 1],
                     route |-> Waypoints(net, path, start_pos, end_pos)]
               ELSE [r |-> cached, route |-> <<>>]
        Cached(cache_key) ==
            {i \in 1..Len(r.route_cache) : r.route_cache[i].key = cache_key}
        Search(start_id, end_id) ==
            Answer(start_id, end_id, Cached(<<start_id, end_id>>) # {},
                   IF Cached(<<start_id, end_id>>) # {}
                   THEN r.route_cache[CHOOSE i \in Cached(<<start_id, end_id>>) : TRUE].path
                   ELSE a_star(net, start_id, end_id))
    IN IF net.nodes = <<>> THEN [r |-> r, route |-> <<>>]
       ELSE Search(get_nearest_node(net, start_pos).id,
                   get_nearest_node(net, end_pos).id)

\* DijkstraRouter.find_path
dijkstra_find_path(r, net, start_pos, end_pos) ==
    LET Answer(start_id, end_id, path) ==
            IF start_id = end_id
            THEN [r |-> r, route |-> <<start_pos, end_pos>>]
            ELSE IF path # <<>>
            THEN [r |-> [r EXCEPT !.paths_calculated = @ + 1],
                  route |-> Waypoints(net, path, start_pos, end_pos)]
            ELSE [r |-> r, route |-> <<>>]
        Search(start_id, end_id) ==
            Answer(start_id, end_id, dijkstra(net, start_id, end_id))
    IN IF net.nodes = <<>> THEN [r |-> r, route |-> <<>>]
       ELSE Search(get_nearest_node(net, start_pos).id,
                   get_nearest_node(net, end_pos).id)

\* TrafficModel.calculate_route through DynamicRouter.find_path; no code
\* of the program writes traffic_weights, so the wrapped router answers
calculate_route(r, net, start, end) ==
    IF r.use_astar THEN astar_find_path(r, net, start, end)
    ELSE dijkstra_find_path(r, net, start, end)

\* DynamicRouter.update_traffic_weight
update_traffic_weight(r, node1_id, node2_id, congestion_factor) ==
        \* tuple(sorted([node1_id, node2_id]))
    LET low == HeapMin({<<0, node1_id>>, <<0, node2_id>>})[2]
        edge_key == <<low, IF low = node1_id THEN node2_id ELSE node1_id>>
        held == {i \in 1..Len(r.traffic_weights) : r.traffic_weights[i].key = edge_key}
    IN [r EXCEPT !.traffic_weights =
           IF held = {} THEN Append(@, [key |-> edge_key, factor |-> congestion_factor])
           ELSE [i \in 1..Len(@) |-> IF i \in held
                                      THEN [key |-> edge_key, factor |-> congestion_factor]
                                      ELSE @[i]]]

\* DynamicRouter.find_path with consider_traffic: [r |-> the router
\* afterwards, net |-> the road network afterwards, route |-> the waypoints].
\* _create_weighted_network copies the dict of nodes, not the nodes: the
\* temporary network holds the Node objects of the road network, and a
\* weight written to one of them is written to the road network
find_path(r, net, start_pos, end_pos) ==
    LET \* one entry of traffic_weights in _create_weighted_network
        Adjust(temp, entry) ==
            LET node1_id == entry.key[1]
                node2_id == entry.key[2]
            IN IF HasNode(temp, node1_id) /\ HasNode(temp, node2_id)
               THEN LET held == NodeOf(temp, node1_id).neighbors
                        \* neighbors.get(node2_id, 1.0)
                        base_weight ==
                            IF HasNeighbor(NodeOf(temp, node1_id), node2_id)
                            THEN held[CHOOSE j \in 1..Len(held) : held[j].id = node2_id].w
                            ELSE 100
                        adjusted_weight == base_weight * entry.factor
                        first == [temp EXCEPT !.nodes[NodeIndex(temp, node1_id)] =
                                     add_neighbor(@, node2_id, adjusted_weight)]
                    IN [first EXCEPT !.nodes[NodeIndex(temp, node2_id)] =
                           add_neighbor(@, node1_id, adjusted_weight)]
               ELSE temp
        RECURSIVE Weighted(_, _)
        Weighted(temp, i) ==
            IF i > Len(r.traffic_weights) THEN temp
            ELSE Weighted(Adjust(temp, r.traffic_weights[i]), i + 1)
    IN IF r.traffic_weights # <<>>
       THEN LET temp_network == Weighted(net, 1)
                \* AStarRouter(temp_network)
                temp_router == DynamicRouter(TRUE)
            IN [r |-> r,
                net |-> temp_network,
                route |-> astar_find_path(temp_router, temp_network,
                                          start_pos, end_pos).route]
       ELSE [r |-> calculate_route(r, net, start_pos, end_pos).r,
             net |-> net,
             route |-> calculate_route(r, net, start_pos, end_pos).route]

----------------------------------------------------------------------------
(* VehicleAgent *)
(* Speeds are cm/s. A vehicle's step reads the other vehicles of the      *)
(* schedule (w.vehicles) and the road network (w.net), and threads the    *)
(* model's router: its context is [s, r, out].                            *)

DefaultMaxSpeed == 1389         \* 13.89 m/s
Acceleration == 200             \* 2.0 m/s2
Deceleration == 400             \* 4.0 m/s2
RouteRecalculationInterval == 30
NearbyRadius == 10000           \* 100 m
NearbyCacheInterval == 10
AheadThreshold == 2000          \* 20 m
ArrivalThreshold == 1000        \* 10 m
WaypointThreshold == 500        \* 5 m
HighCongestion == 7             \* 0.7, in tenths

\* VehicleAgent.__init__; congestion is the CONGESTION belief (None when
\* absent), alerts_seen counts the congestion alerts the agent has been
\* handed while active, change_route_status is the status execute_intentions
\* gave the last CHANGE_ROUTE intention, failed records an exception that
\* left the step; action_history holds the records appended during the last
\* step, intention_log the statuses each intention of the last step went
\* through
VehicleAgent(id, position, destination, max_speed, vehicle_type) ==
    [unique_id |-> id,
     vehicle_type |-> vehicle_type,
     position |-> position,
     destination |-> destination,
     speed |-> 0,
     max_speed |-> max_speed,
     current_route |-> <<>>,
     current_waypoint_index |-> 0,
     route_recalculation_timer |-> 0,
     is_stopped |-> FALSE,
     waiting_at_intersection |-> FALSE,
     stuck_timer |-> 0,
     travel_time |-> 0,
     route_changes |-> 0,
     stops_count |-> 0,
     active |-> TRUE,
     current_time |-> 0,
     message_inbox |-> <<>>,
     nearby_cache |-> <<>>,
     nearby_cache_time |-> 0,
     neighbors |-> <<>>,
     traffic_state |-> "fluide",
     congestion |-> [level |-> -1, reason |-> "", timestamp |-> 0, held |-> FALSE],
     last_message_type |-> "",
     alerts_seen |-> 0,
     change_route_status |-> "none",
     failed |-> FALSE,
     intentions |-> <<>>,
     action_history |-> <<>>,
     intention_log |-> <<>>]

VCtx(s, r, out) == [s |-> s, r |-> r, out |-> out]

\* _get_nearby_vehicles: ids of the vehicles of the cache
get_nearby_vehicles(s, w) ==
    IF s.current_time - s.nearby_cache_time >= NearbyCacheInterval
    THEN LET near == SelectSeq(w.vehicles,
                         LAMBDA a : /\ a.unique_id # s.unique_id
                                    /\ a.active
                                    /\ calculate_distance(s.position, a.position)
                                           <= NearbyRadius)
         IN [s EXCEPT !.nearby_cache = [i \in 1..Len(near) |-> near[i].unique_id],
                      !.nearby_cache_time = s.current_time]
    ELSE s

\* _assess_traffic_state
assess_traffic_state(neighbors) ==
    IF Len(neighbors) > 10 THEN "congestionne"
    ELSE IF Len(neighbors) > 5 THEN "dense"
    ELSE "fluide"

\* _recalculate_route that counts the attempt and restarts the route also
\* when the router found no path
recalculate_route_counting(c, w) ==
    LET Take(found) ==
            VCtx([c.s EXCEPT !.current_route = IF found.route # <<>> THEN found.route ELSE @,
                             !.current_waypoint_index = 0,
                             !.route_changes = @ + 1,
                             !.change_route_status =
                                 IF found.route # <<>> THEN "completed" ELSE "failed"],
                 found.r, c.out)
    IN Take(calculate_route(c.r, w.net, c.s.position, c.s.destination))

\* _recalculate_route, with the status its return value gives the intention
recalculate_route(c, w) ==
    LET Take(found) ==
            IF found.route # <<>>
            THEN VCtx([c.s EXCEPT !.current_route = found.route,
                                  !.current_waypoint_index = 0,
                                  !.route_changes = @ + 1,
                                  !.change_route_status = "completed"],
                      found.r, c.out)
            ELSE VCtx([c.s EXCEPT !.change_route_status = "failed"], found.r, c.out)
    IN Take(calculate_route(c.r, w.net, c.s.position, c.s.destination))

\* VehicleAgent.handle_message
veh_handle_message(c, message, w) ==
    IF message.performative = "INFORM" /\ "congestion" \in DOMAIN message.content
    THEN LET congestion_level == Get(message.content, "congestion_level", 0)
             reason == Get(message.content, "reason", "")
             believed == [c.s EXCEPT
                            !.last_message_type =
                                Get(message.content, "type", "congestion"),
                            !.congestion = [level |-> congestion_level,
                                            reason |-> reason,
                                            timestamp |-> c.s.current_time,
                                            held |-> TRUE]]
         IN IF congestion_level > HighCongestion \/ reason = "incident"
            THEN \* self.route is not an attribute of the agent
                 VCtx([believed EXCEPT !.failed = TRUE], c.r, c.out)
            ELSE VCtx(believed, c.r, c.out)
    ELSE c

\* BDIAgent.process_messages for a vehicle
veh_process_messages(c0, w) ==
    \* the message is a congestion alert that calls for an immediate reroute
    LET IsCongestionAlert(message) ==
            /\ Lower(message.performative) = "inform"
            /\ \/ Get(message.content, "congestion_level", 0) >= HighCongestion
               \/ Get(message.content, "reason", "") = "incident"
        Seen(h, message) ==
            VCtx([h.s EXCEPT !.alerts_seen =
                     IF IsCongestionAlert(message) THEN @ + 1 ELSE @],
                 h.r, h.out)
        RECURSIVE Go(_, _)
        Go(i, c) ==
            IF i > Len(c0.s.message_inbox) \/ c.s.failed THEN c
            ELSE Go(i + 1, Seen(veh_handle_message(c, c0.s.message_inbox[i], w),
                                c0.s.message_inbox[i]))
        Emptied(r) ==
            IF r.s.failed THEN r
            ELSE VCtx([r.s EXCEPT !.message_inbox = <<>>], r.r, r.out)
    IN Emptied(Go(1, c0))

\* VehicleAgent.perceive
veh_perceive(c, w) ==
    LET Seen(cached) ==
            [cached EXCEPT !.neighbors = cached.nearby_cache,
                           !.traffic_state = assess_traffic_state(cached.nearby_cache)]
    IN veh_process_messages(VCtx(Seen(get_nearby_vehicles(c.s, w)), c.r, c.out), w)

\* BDIAgent.remove_outdated_beliefs on the CONGESTION belief
veh_remove_outdated(s) ==
    IF s.congestion.held /\ s.current_time - s.congestion.timestamp >= 10
    THEN [s EXCEPT !.congestion.held = FALSE]
    ELSE s

\* _is_at_destination with five times the threshold
is_at_destination_early(s) ==
    calculate_distance(s.position, s.destination) < 5 * ArrivalThreshold

\* _is_at_destination
is_at_destination(s) ==
    calculate_distance(s.position, s.destination) < ArrivalThreshold

\* _vehicle_ahead
vehicle_ahead(s, w) ==
    \E i \in 1..Len(w.vehicles) :
        /\ \E k \in 1..Len(s.neighbors) : s.neighbors[k] = w.vehicles[i].unique_id
        /\ calculate_distance(s.position, w.vehicles[i].position) < AheadThreshold
        /\ w.vehicles[i].speed < s.speed

\* _move_forward accelerating without the cap at max_speed
move_forward_uncapped(s) ==
    IF s.current_route = <<>> \/ s.current_waypoint_index >= Len(s.current_route)
    THEN s
    ELSE LET target == s.current_route[s.current_waypoint_index + 1]
             dx == target[1] - s.position[1]
             dy == target[2] - s.position[2]
             distance == calculate_distance(s.position, target)
             speed == s.speed + Acceleration * time_step
             displacement == speed * time_step
             position == IF distance = 0 THEN s.position
                         ELSE <<s.position[1] + (dx * displacement) \div distance,
                                s.position[2] + (dy * displacement) \div distance>>
         IN [s EXCEPT !.speed = speed,
                      !.position = position,
                      !.current_waypoint_index =
                          IF calculate_distance(position, target) < WaypointThreshold
                          THEN @ + 1 ELSE @]

\* _move_forward
move_forward(s) ==
    IF s.current_route = <<>> \/ s.current_waypoint_index >= Len(s.current_route)
    THEN s
    ELSE LET target == s.current_route[s.current_waypoint_index + 1]
             dx == target[1] - s.position[1]
             dy == target[2] - s.position[2]
             distance == calculate_distance(s.position, target)
             speed == IF s.speed < s.max_speed
                      THEN Min(s.speed + Acceleration * time_step, s.max_speed)
                      ELSE s.speed
             displacement == speed * time_step
             position == IF distance = 0 THEN s.position
                         ELSE <<s.position[1] + (dx * displacement) \div distance,
                                s.position[2] + (dy * displacement) \div distance>>
         IN [s EXCEPT !.speed = speed,
                      !.position = position,
                      !.current_waypoint_index =
                          IF calculate_distance(position, target) < WaypointThreshold
                          THEN @ + 1 ELSE @]

\* _decelerate
decelerate(s, target_speed) ==
    [s EXCEPT !.speed = Max(s.speed - Deceleration * time_step, Max(target_speed, 0))]

\* _stop
stop(s) ==
    [s EXCEPT !.speed = 0, !.is_stopped = TRUE, !.stops_count = @ + 1]

\* execute_intentions that keeps the intentions it has run in the list
execute_intentions_unpurged(intentions, successes, current_time) ==
    LET pending == SelectSeq([i \in 1..Len(intentions) |-> i],
                             LAMBDA i : intentions[i].status = "pending")
        Final(i) == IF successes[i] THEN "completed" ELSE "failed"
        ran == [i \in 1..Len(intentions) |->
                   IF intentions[i].status = "pending"
                   THEN [intentions[i] EXCEPT !.status = Final(i)]
                   ELSE intentions[i]]
    IN [intentions |-> ran,
        action_history |->
            [k \in 1..Len(pending) |->
                [time |-> current_time,
                 intention |-> intentions[pending[k]].type,
                 success |-> successes[pending[k]],
                 parameters |-> intentions[pending[k]].parameters]],
        intention_log |->
            [k \in 1..Len(pending) |->
                [type |-> intentions[pending[k]].type,
                 statuses |-> <<"pending", "executing", Final(pending[k])>>]]]

\* BDIAgent.execute_intentions on the list of intentions; successes[i] is
\* the return value of execute_intention for the i-th intention. The result is
\* the list afterwards, the records appended to action_history and, for each
\* intention run, the statuses it went through
execute_intentions(intentions, successes, current_time) ==
    LET pending == SelectSeq([i \in 1..Len(intentions) |-> i],
                             LAMBDA i : intentions[i].status = "pending")
        Final(i) == IF successes[i] THEN "completed" ELSE "failed"
        ran == [i \in 1..Len(intentions) |->
                   IF intentions[i].status = "pending"
                   THEN [intentions[i] EXCEPT !.status = Final(i)]
                   ELSE intentions[i]]
    IN [intentions |-> SelectSeq(ran, LAMBDA n : n.status \notin {"completed", "failed"}),
        action_history |->
            [k \in 1..Len(pending) |->
                [time |-> current_time,
                 intention |-> intentions[pending[k]].type,
                 success |-> successes[pending[k]],
                 parameters |-> intentions[pending[k]].parameters]],
        intention_log |->
            [k \in 1..Len(pending) |->
                [type |-> intentions[pending[k]].type,
                 statuses |-> <<"pending", "executing", Final(pending[k])>>]]]

\* VehicleAgent.deliberate followed by BDIAgent.execute_intentions
veh_deliberate_execute(c, w) ==
    LET reroute == /\ c.s.traffic_state = "congestionne"
                   /\ c.s.route_recalculation_timer >= RouteRecalculationInterval
        timed == IF reroute THEN [c.s EXCEPT !.route_recalculation_timer = 0]
                 ELSE c.s
        Intention(type, parameters) ==
            [type |-> type, status |-> "pending", parameters |-> parameters]
        \* deliberate and execute_intentions, given the context after
        \* _recalculate_route where an intention called it, and whether a
        \* vehicle is ahead
        Decided(rerouted, ahead) ==
                \* the intentions deliberate returns, each with the return value
                \* of its execution
            LET new_intentions ==
                    IF c.s.current_route = <<>>
                    THEN <<[n |-> Intention("change_route", <<>>),
                            success |-> rerouted.s.change_route_status = "completed"]>>
                    ELSE IF is_at_destination(c.s)
                    THEN <<[n |-> Intention("stop", <<>>), success |-> TRUE]>>
                    ELSE (IF reroute
                          THEN <<[n |-> Intention("change_route", <<>>),
                                  success |->
                                      rerouted.s.change_route_status = "completed"]>>
                          ELSE <<>>)
                         \o (IF c.s.waiting_at_intersection THEN <<>>
                             ELSE IF ahead
                             THEN <<[n |-> Intention("decelerate",
                                                     [target_speed |-> timed.speed \div 2]),
                                     success |-> TRUE]>>
                             ELSE <<[n |-> Intention("move_forward", <<>>),
                                     success |->
                                         ~(\/ rerouted.s.current_route = <<>>
                                           \/ rerouted.s.current_waypoint_index
                                                 >= Len(rerouted.s.current_route))]>>)
                done == IF c.s.current_route = <<>> THEN rerouted
                        ELSE IF is_at_destination(c.s)
                        THEN VCtx(stop([c.s EXCEPT !.active = FALSE]), c.r, c.out)
                        ELSE IF c.s.waiting_at_intersection THEN rerouted
                        ELSE IF ahead
                        THEN VCtx(decelerate(rerouted.s, timed.speed \div 2),
                                  rerouted.r, rerouted.out)
                        ELSE VCtx(move_forward(rerouted.s), rerouted.r, rerouted.out)
                held == Len(c.s.intentions)
                run == CHOOSE ran \in
                           {execute_intentions(
                                c.s.intentions \o [i \in 1..Len(made) |-> made[i].n],
                                [i \in (held + 1)..(held + Len(made)) |->
                                    made[i - held].success],
                                c.s.current_time) : made \in {new_intentions}} : TRUE
            IN [done EXCEPT !.s.intentions = run.intentions,
                            !.s.action_history = run.action_history,
                            !.s.intention_log = run.intention_log]
    IN IF c.s.failed THEN c
       ELSE CHOOSE after \in
                {Decided(rerouted, ahead) :
                    rerouted \in
                        {IF c.s.current_route = <<>> THEN recalculate_route(c, w)
                         ELSE IF reroute /\ ~is_at_destination(c.s)
                         THEN recalculate_route(VCtx(timed, c.r, c.out), w)
                         ELSE VCtx(timed, c.r, c.out)},
                    ahead \in {c.s.neighbors # <<>> /\ vehicle_ahead(timed, w)}} : TRUE

\* VehicleAgent.step
veh_step(s, r, w) ==
    [IF ~s.active THEN VCtx(s, r, <<>>)
     ELSE CHOOSE done \in
              {veh_deliberate_execute(perceived, w) :
                  perceived \in
                      {[veh_perceive(VCtx([s EXCEPT !.action_history = <<>>,
                                                    !.intention_log = <<>>], r, <<>>), w)
                        EXCEPT !.s = IF @.failed THEN @ ELSE veh_remove_outdated(@)]}} :
              TRUE
     EXCEPT !.s =
        IF @.failed THEN @
        ELSE IF @.speed < 10 /\ ~@.is_stopped
        THEN [@ EXCEPT !.current_time = IF s.active THEN @ + time_step ELSE @,
                       !.travel_time = @ + time_step,
                       !.route_recalculation_timer = @ + time_step,
                       !.stuck_timer = @ + time_step]
        ELSE [@ EXCEPT !.current_time = IF s.active THEN @ + time_step ELSE @,
                       !.travel_time = @ + time_step,
                       !.route_recalculation_timer = @ + time_step,
                       !.stuck_timer = 0]]

----------------------------------------------------------------------------
(* IncidentScenario (scenarios/incident.py) *)
(* The scenario reads and writes the world w = [net, cm, intersections,   *)
(* vehicles]: it removes edges of the road network and writes into the    *)
(* inboxes of the agents of the schedule.                                 *)

IncidentRadius == 100000        \* 1000 m
ZoneMargin == 5000              \* 50 m
RebroadcastPeriod == 60

\* IncidentScenario.__init__ with the configured times and blocked road
IncidentScenario(start_time, duration, coords) ==
    [incident_start_time |-> start_time,
     incident_end_time |-> start_time + duration,
     blocked_road_coords |-> coords,
     incident_active |-> FALSE,
     incident_resolved |-> FALSE,
     blocked_edges |-> <<>>,
     vehicles_redirected |-> 0,
     congestion_messages_sent |-> 0]

\* the centre of the blocked road
IncidentCenter(sc) ==
    <<(sc.blocked_road_coords[1][1] + sc.blocked_road_coords[2][1]) \div 2,
      (sc.blocked_road_coords[1][2] + sc.blocked_road_coords[2][2]) \div 2>>

\* the congestion message of _broadcast_incident_info
IncidentMessage(sc, receiver) ==
    FIPAMessage(ScenarioId, receiver, "inform",
                [type |-> "congestion",
                 congestion_level |-> 10,
                 location |-> IncidentCenter(sc),
                 reason |-> "incident",
                 blocked_road |-> "Pont De Gaulle"],
                None)

\* _block_path_between: [net, blocked_edges] afterwards
block_path_between(net, blocked_edges, start_id, end_id) ==
    LET direct == HasNeighbor(NodeOf(net, start_id), end_id)
        net1 == IF direct THEN remove_edge(net, start_id, end_id) ELSE net
        blocked1 == IF direct THEN Append(blocked_edges, <<start_id, end_id>>)
                    ELSE blocked_edges
        start_pos == NodeOf(net, start_id).position
        end_pos == NodeOf(net, end_id).position
        nodes_in_zone ==
            SelectSeq([i \in 1..Len(net.nodes) |-> net.nodes[i]],
                LAMBDA n :
                    /\ Min(start_pos[1], end_pos[1]) - ZoneMargin <= n.position[1]
                    /\ n.position[1] <= Max(start_pos[1], end_pos[1]) + ZoneMargin
                    /\ Min(start_pos[2], end_pos[2]) - ZoneMargin <= n.position[2]
                    /\ n.position[2] <= Max(start_pos[2], end_pos[2]) + ZoneMargin)
        RECURSIVE Pairs(_, _, _)
        Pairs(i, j, st) ==
            IF i > Len(nodes_in_zone) THEN st
            ELSE IF j > Len(nodes_in_zone) THEN Pairs(i + 1, i + 2, st)
            ELSE IF HasNeighbor(NodeOf(st.net, nodes_in_zone[i].id), nodes_in_zone[j].id)
            THEN Pairs(i, j + 1,
                       [net |-> remove_edge(st.net, nodes_in_zone[i].id,
                                            nodes_in_zone[j].id),
                        blocked_edges |-> Append(st.blocked_edges,
                                             <<nodes_in_zone[i].id, nodes_in_zone[j].id>>)])
            ELSE Pairs(i, j + 1, st)
    IN Pairs(1, 2, [net |-> net1, blocked_edges |-> blocked1])

\* _notify_crisis_manager
notify_crisis_manager(sc, cm_agent) ==
    receive_message(cm_agent,
        FIPAMessage(ScenarioId, cm_agent.unique_id, "inform",
                    [type |-> "incident_report",
                     incident_type |-> "vehicle_breakdown",
                     location |-> sc.blocked_road_coords[1],
                     severity |-> "high",
                     road_name |-> "Pont De Gaulle",
                     alternative_road |-> "Pont HKB"],
                    None))

NearIncident(sc, agent) ==
    calculate_distance(agent.position, IncidentCenter(sc)) <= IncidentRadius

\* _rebroadcast_to_intersections
rebroadcast_to_intersections(sc, w) ==
    [w EXCEPT !.intersections = [i \in 1..Len(@) |->
        IF NearIncident(sc, @[i])
        THEN receive_message(@[i], IncidentMessage(sc, @[i].unique_id))
        ELSE @[i]]]

\* _trigger_incident: [sc, w] afterwards
trigger_incident(sc, w) ==
    LET reached == Cardinality({i \in 1..Len(w.intersections) :
                                    NearIncident(sc, w.intersections[i])})
        Inform(blocked, drivers) ==
            [sc |-> [sc EXCEPT !.incident_active = TRUE,
                               !.blocked_edges = blocked.blocked_edges,
                               !.congestion_messages_sent = @ + reached,
                               !.vehicles_redirected = @ + Cardinality(drivers)],
             w |-> [rebroadcast_to_intersections(sc, w) EXCEPT
                      !.net = blocked.net,
                      !.cm = notify_crisis_manager(sc, @),
                      !.vehicles = [i \in 1..Len(@) |->
                          IF i \in drivers
                          THEN receive_message(@[i], IncidentMessage(sc, @[i].unique_id))
                          ELSE @[i]]]]
    IN Inform(IF w.net.nodes # <<>>
              THEN block_path_between(w.net, sc.blocked_edges,
                       get_nearest_node(w.net, sc.blocked_road_coords[1]).id,
                       get_nearest_node(w.net, sc.blocked_road_coords[2]).id)
              ELSE [net |-> w.net, blocked_edges |-> sc.blocked_edges],
              {i \in 1..Len(w.vehicles) :
                  w.vehicles[i].active /\ NearIncident(sc, w.vehicles[i])})

\* _resolve_incident that forgets to mark the incident as resolved
resolve_incident_unmarked(sc, w) ==
    LET RECURSIVE Restore(_, _)
        Restore(i, net) ==
            IF i > Len(sc.blocked_edges) THEN net
            ELSE Restore(i + 1, add_edge(net, sc.blocked_edges[i][1],
                                         sc.blocked_edges[i][2]))
    IN [sc |-> [sc EXCEPT !.incident_active = FALSE,
                          !.blocked_edges = <<>>],
        w |-> [w EXCEPT !.net = Restore(1, w.net)]]

\* _resolve_incident
resolve_incident(sc, w) ==
    LET RECURSIVE Restore(_, _)
        Restore(i, net) ==
            IF i > Len(sc.blocked_edges) THEN net
            ELSE Restore(i + 1, add_edge(net, sc.blocked_edges[i][1],
                                         sc.blocked_edges[i][2]))
    IN [sc |-> [sc EXCEPT !.incident_active = FALSE,
                          !.incident_resolved = TRUE,
                          !.blocked_edges = <<>>],
        w |-> [w EXCEPT !.net = Restore(1, w.net)]]

\* IncidentScenario.step
incident_step(sc0, w0, step) ==
    LET current_time == step * time_step
        Resolve(monitored) ==
            IF /\ monitored.sc.incident_active
               /\ current_time >= monitored.sc.incident_end_time
            THEN resolve_incident(monitored.sc, monitored.w)
            ELSE monitored
        Monitor(triggered) ==
            Resolve(IF /\ triggered.sc.incident_active
                       /\ current_time < triggered.sc.incident_end_time
                       /\ current_time % RebroadcastPeriod = 0
                    THEN [sc |-> triggered.sc,
                          w |-> rebroadcast_to_intersections(triggered.sc, triggered.w)]
                    ELSE triggered)
    IN IF current_time < sc0.incident_start_time THEN [sc |-> sc0, w |-> w0]
       ELSE Monitor(IF /\ current_time >= sc0.incident_start_time
                       /\ ~sc0.incident_active /\ ~sc0.incident_resolved
                    THEN trigger_incident(sc0, w0)
                    ELSE [sc |-> sc0, w |-> w0])

----------------------------------------------------------------------------
(* One intersection in its environment                                     *)
(* The intersection I stands at (200 m, 100 m) with one neighbour N1 100 m *)
(* to the east.  Each tick the environment delivers the messages written to   *)
(* I since its last step and places the vehicles; then I runs its step.    *)

IxId == "intersection_0"
IxPos == <<20000, 10000>>
N1 == "intersection_1"

\* vehicle placements around I: none, a queue of 20 from the north, queues
\* of 6 from the north and 6 from the east, a queue of 8 from the east,
\* queues of 28 and of 29 from the north
Scenes ==
    LET Standing(id, pos) == [unique_id |-> id, position |-> pos, active |-> TRUE]
    IN
    {<<>>,
     [i \in 1..20 |-> Standing(i, <<20000, 12000>>)],
     [i \in 1..12 |-> Standing(i, IF i <= 6 THEN <<20000, 12000>> ELSE <<23000, 10000>>)],
     [i \in 1..8 |-> Standing(i, <<23000, 10000>>)],
     [i \in 1..28 |-> Standing(i, <<20000, 12000>>)],
     [i \in 1..29 |-> Standing(i, <<20000, 12000>>)]}

IxMessages(step) ==
    LET N1Pos == <<30000, 10000>>
    IN
        \* the neighbor_state content a neighbour in the given condition broadcasts
        \* (_broadcast_state_to_neighbors run by that neighbour at time ts)
    LET NeighborContent(phase, remaining, queues, pos, ts) ==
            [type |-> "neighbor_state",
             phase |-> phase,
             phase_timer_remaining |-> remaining,
             queue_lengths |-> queues,
             outflow_estimate |->
                 SumOver([d \in Directions |-> Min(2 * queues[d], time_step * remaining)],
                         PhaseGroup(phase)),
             position |-> pos,
             timestamp |-> ts]
    IN
    LET Queues(n, so, e, w) ==
            [d \in Directions |-> CASE d = "north" -> n [] d = "south" -> so
                                    [] d = "east" -> e [] d = "west" -> w]
    IN
        \* conditions of N1 when it broadcasts: <<phase, remaining green, queues>>
    LET NeighborConditions ==
            {<<"EW", 2, Queues(0, 0, 3, 3)>>,
             <<"EW", 10, Queues(0, 0, 3, 3)>>,
             <<"NS", 20, Queues(2, 2, 0, 0)>>,
             <<"NS", 30, Queues(0, 0, 0, 0)>>}
    IN
        \* a neighbour broadcasts in the ticks whose number is a multiple of the
        \* synchronisation period; I reads the message in the same tick when the
        \* neighbour was activated first, in the next tick otherwise
    LET NeighborMessages(step_n) ==
            LET sync_steps == Max(1, NeighborSyncInterval \div time_step)
                sent_at == {t \in {step_n, step_n - 1} : t >= 0 /\ t % sync_steps = 0}
            IN {FIPAMessage(N1, IxId, "INFORM",
                            NeighborContent(c[1], c[2], c[3], N1Pos, t * time_step), None) :
                   c \in NeighborConditions, t \in sent_at}
    IN
        \* positions of an emergency vehicle reported by the crisis manager
    LET EmergencyPositions == {<<10000, 10000>>, <<20000, 30000>>}
    IN
    LET CrisisMessages ==
            {FIPAMessage(CrisisId, IxId, "request",
                         [type |-> "emergency_priority", vehicle_id |-> "vehicle_0",
                          vehicle_type |-> "ambulance", vehicle_position |-> p,
                          priority |-> "absolute"], None) : p \in EmergencyPositions}
            \cup
            {FIPAMessage(CrisisId, IxId, "accept-proposal",
                         [task |-> "priority_delegation", priority_direction |-> "north"],
                         "default"),
             FIPAMessage(CrisisId, IxId, "request",
                         [type |-> "call_for_proposals", task |-> "priority_delegation",
                          congested_intersection |-> N1, congestion_level |-> 41,
                          direction |-> "east"], None)
                 @@ [message_id |-> "msg_1700000000000"]}
    IN
    LET ScenarioMessages ==
            {FIPAMessage(ScenarioId, IxId, "inform",
                         [type |-> "congestion", congestion_level |-> 10,
                          location |-> <<25000, 22500>>, reason |-> "incident",
                          blocked_road |-> "Pont De Gaulle"], None)}
    IN
                    NeighborMessages(step) \cup CrisisMessages \cup ScenarioMessages

\* a model without intersections, vehicles, roads or scenarios
SimIdle ==
    /\ intersections = <<>>
    /\ vehicles = <<>>
    /\ road_network = RoadNetwork
    /\ router = DynamicRouter(TRUE)
    /\ incident = <<>>
    /\ rush = [start_time |-> 0, duration |-> 0, options |-> {}, vehicles_created |-> 0]
    /\ totals = [vehicles_created |-> 0, vehicles_arrived |-> 0]
    /\ requests = <<>>
    /\ wrote_direct = FALSE
    /\ same_tick = FALSE
    /\ routed = <<>>

\* the crisis manager as constructed, nothing proposed
CnpIdle ==
    /\ cm = CrisisManagerAgent(CrisisId)
    /\ cm_sent = <<>>
    /\ cnp_props = <<>>
    /\ cnp_next = 1

IxInit ==
    /\ ix = IntersectionAgent(IxId, IxPos, <<N1>>)
    /\ use_q_learning \in BOOLEAN
    /\ current_step = 0
    /\ time_step = IxTimeStep
    /\ sent = <<>>
    /\ ix_vehicles \in Scenes
    /\ delivered = 0
    /\ CnpIdle
    /\ SimIdle
    /\ observed = <<>>

\* one tick of TrafficModel.step seen from I: the deliveries since its last
\* step, its BDI step, the step counter
IxTick(msgs, n, action) ==
    LET IxAgents == {IxId, N1, CrisisId}
    IN
        \* receive_message for each of the n messages of msgs, in order
    LET Deliver(s, msgs_d, n_d) ==
            LET RECURSIVE Go(_, _)
                Go(i, r) == IF i > n_d THEN r
                            ELSE Go(i + 1, receive_message(r, msgs_d[i]))
            IN Go(1, s)
    IN
    /\ current_step < (IF use_q_learning THEN MaxQTicks
                       ELSE IF ix.neighbors = <<>> THEN MaxPressureTicks
                       ELSE MaxTicks)
    /\ delivered' = delivered + n
    /\ LET w == [vehicles |-> ix_vehicles, agents |-> IxAgents,
                 current_step |-> current_step,
                 use_q_learning |-> use_q_learning]
           c == ix_step(Deliver(ix, msgs, n), w, action)
       IN /\ ix' = c.s
          /\ sent' = c.out
    /\ current_step' = current_step + 1
    /\ UNCHANGED <<use_q_learning, time_step, ix_vehicles, cnpVars, simVars, observed>>

IxNext ==
    \E n \in 0..(MaxMessages - delivered) :
        \E msgs \in [1..n -> IxMessages(current_step)],
              action \in (IF use_q_learning THEN {"change", "keep"} ELSE {"keep"}) :
               IxTick(msgs, n, action)

SpecIx == IxInit /\ [][IxNext]_vars

\* a single intersection without neighbours under Max-Pressure, NS green from
\* the construction, 20 vehicles queued from the north and none elsewhere
PressureInit ==
    /\ ix = IntersectionAgent(IxId, IxPos, <<>>)
    /\ use_q_learning = FALSE
    /\ current_step = 0
    /\ time_step \in {2, 3, 5}
    /\ sent = <<>>
    /\ ix_vehicles = [i \in 1..20 |-> [unique_id |-> i, position |-> <<20000, 12000>>,
                                       active |-> TRUE]]
    /\ delivered = 0
    /\ CnpIdle
    /\ SimIdle
    /\ observed = <<>>

\* a tick in which no message reaches the intersection
PressureTick == IxTick(<<>>, 0, "keep")

SpecPressure == PressureInit /\ [][PressureTick]_vars

----------------------------------------------------------------------------
(* The crisis manager as manager of a Contract-Net conversation (SpecCnp) *)
(* The contractors answer the calls for proposals of one tick; a call       *)
(* carries no conversation_id (contract_net_protocol), so neither do the    *)
(* proposals.                                                               *)
(* observed holds the copies of the call that the crisis manager wrote      *)
(* into the inboxes of the contractors.                                     *)

Contractors == {"intersection_0", "intersection_1", "intersection_2", "intersection_3"}

\* sequences of n proposals from distinct contractors
ProposalSeqs(n) ==
        \* availability of a contractor in fortieths: 40 - current_load, above 0.3
    LET Availabilities == {14, 25, 36}
    IN
        \* the propose message of _handle_cfp
    LET Proposal(sender, availability) ==
            FIPAMessage(sender, CrisisId, "propose",
                        [task |-> "priority_delegation",
                         availability |-> availability,
                         current_load |-> MaxCapacity - availability,
                         position |-> <<0, 0>>],
                        None)
    IN
    {[i \in 1..n |-> Proposal(senders[i], avail[i])] :
        senders \in {f \in [1..n -> Contractors] :
                        \A i, j \in 1..n : i # j => f[i] # f[j]},
        avail \in [1..n -> Availabilities]}

IxIdle ==
    /\ ix = IntersectionAgent(IxId, IxPos, <<N1>>)
    /\ use_q_learning = FALSE
    /\ current_step = 0
    /\ sent = <<>>
    /\ ix_vehicles = <<>>
    /\ delivered = 0

CnpInit ==
        \* a congested intersection, 41 vehicles queued from one direction,
        \* whose neighbours are contractors
    LET Congested(id, neighbors, heavy) ==
            [IntersectionAgent(id, <<20000, 20000>>, neighbors)
             EXCEPT !.queue_lengths = [d \in Directions |->
                                          IF d = heavy THEN MaxCapacity + 1 ELSE 0]]
    IN
        \* the congested intersections of the tick: one whose neighbours are all
        \* the contractors, or two with two contractors each
    LET Grid(calls, heavy) ==
            IF calls = 1
            THEN <<Congested("intersection_4",
                             <<"intersection_0", "intersection_1",
                               "intersection_2", "intersection_3">>, heavy)>>
            ELSE <<Congested("intersection_4",
                             <<"intersection_0", "intersection_1">>, heavy),
                   Congested("intersection_5",
                             <<"intersection_2", "intersection_3">>, heavy)>>
    IN
        \* the delegation that opened the conversations
    LET Called(calls, heavy) ==
            delegate_priority_via_cnp(
                Ctx([CrisisManagerAgent(CrisisId) EXCEPT
                       !.congested_intersections =
                           [i \in 1..calls |->
                               [id |-> Grid(calls, heavy)[i].unique_id,
                                position |-> <<20000, 20000>>,
                                queue_total |-> MaxCapacity + 1]]],
                    <<>>),
                [intersections |-> Grid(calls, heavy)])
    IN
    /\ \E calls \in {1, 2}, heavy \in {"north", "east", "west"} :
          /\ cm = Called(calls, heavy).s
          /\ observed = Called(calls, heavy).out
    /\ cm_sent = <<>>
    /\ cnp_next = 1
    /\ \E k \in 2..MaxProposals : cnp_props \in ProposalSeqs(k)
    /\ time_step = 1
    /\ IxIdle
    /\ SimIdle

\* a contractor's _handle_cfp hands its proposal to the crisis manager
CnpPropose ==
    /\ cnp_next <= Len(cnp_props)
    /\ cm' = receive_message(cm, cnp_props[cnp_next])
    /\ cnp_next' = cnp_next + 1
    /\ UNCHANGED <<cm_sent, cnp_props, time_step, ixVars, simVars, observed>>

\* the crisis manager's step in a tick without emergency or congestion
CnpStep ==
    LET CnpAgents == Contractors \cup {CrisisId}
    IN
    /\ cm.current_time < MaxCnpSteps
    /\ LET w == [vehicles |-> <<>>, intersections |-> <<>>, agents |-> CnpAgents]
           c == cm_step(cm, w)
       IN /\ cm' = c.s
          /\ cm_sent' = cm_sent \o c.out
    /\ UNCHANGED <<cnp_props, cnp_next, time_step, ixVars, simVars, observed>>

CnpNext == CnpPropose \/ CnpStep

SpecCnp == CnpInit /\ [][CnpNext]_vars

----------------------------------------------------------------------------
(* The crisis manager's inbox under acknowledgements (SpecMailbox) *)
(* Every intersection that handles an emergency_priority request writes   *)
(* its acknowledgement into the inbox of the crisis manager; those that   *)
(* are activated before the crisis manager in a tick do so before it      *)
(* reads its inbox.                                                       *)

\* MessageQueue.add_to_inbox: the bounded mailbox of the communication
\* layer, which no agent of the schedule owns
add_to_inbox(q, message) ==
    IF Len(q.inbox) < q.max_size
    THEN [q EXCEPT !.inbox = Append(@, message)]
    ELSE [q EXCEPT !.inbox = Append(Tail(@), message)]

MbInit ==
    /\ CnpIdle
    /\ IxIdle
    /\ SimIdle
    /\ observed = <<>>
    /\ time_step = 1

\* _handle_emergency_priority of one more intersection: sender_agent.receive_message
MbAcknowledge ==
        \* the acknowledgement of _handle_emergency_priority from the i-th intersection
    LET Acknowledgement(i) ==
            FIPAMessage("intersection_" \o ToString(i), CrisisId, "INFORM",
                        [type |-> "emergency_acknowledged",
                         green_direction |-> "east",
                         intersection |-> "intersection_" \o ToString(i)],
                        None)
    IN
    /\ Len(cm.message_inbox) < MaxAcks
    /\ cm' = receive_message(cm, Acknowledgement(Len(cm.message_inbox)))
    /\ UNCHANGED <<cm_sent, cnp_props, cnp_next, time_step, ixVars, simVars, observed>>

\* the crisis manager's step of the tick
MbStep ==
    /\ cm.current_time < MaxMbSteps
    /\ LET w == [vehicles |-> <<>>, intersections |-> <<>>, agents |-> {CrisisId}]
           c == cm_step(cm, w)
       IN /\ cm' = c.s
          /\ cm_sent' = cm_sent \o c.out
    /\ UNCHANGED <<cnp_props, cnp_next, time_step, ixVars, simVars, observed>>

MbNext == MbAcknowledge \/ MbStep

SpecMailbox == MbInit /\ [][MbNext]_vars

----------------------------------------------------------------------------
(* TrafficModel: creation of vehicles, scenarios, and the simulation step *)
(* A model is the record m = [cm, intersections, vehicles, net, r,       *)
(* incident, rush, totals, step] with the history fields requests,       *)
(* wrote_direct, same_tick and, within a step, written: the ids of the   *)
(* agents whose inbox has been written during the step.                  *)

\* TrafficModel._create_vehicle
create_vehicle(m, vehicle_id, vehicle_type, start_pos, dest_pos) ==
        \* speed_by_type of _create_vehicle
    LET SpeedByType(vehicle_type_s) ==
            CASE vehicle_type_s = "ambulance" -> 2222
              [] vehicle_type_s = "bus_sotra" -> 1111
              [] vehicle_type_s = "pompier" -> 1944
              [] vehicle_type_s = "police" -> 2222
              [] OTHER -> DefaultMaxSpeed
    IN
    LET vehicle == VehicleAgent(vehicle_id, start_pos, dest_pos,
                                SpeedByType(vehicle_type), vehicle_type)
        blocked == IF m.incident = <<>> THEN <<>>
                   ELSE [k \in 1..Len(m.incident[1].blocked_edges) |->
                            {NodeOf(m.net, m.incident[1].blocked_edges[k][1]).position,
                             NodeOf(m.net, m.incident[1].blocked_edges[k][2]).position}]
        Add(found) ==
            [m EXCEPT
               !.r = found.r,
               !.vehicles = Append(@, [vehicle EXCEPT !.current_route = found.route]),
               !.totals.vehicles_created = @ + 1,
               !.routed = IF blocked = <<>> THEN @
                          ELSE Append(@, [route |-> found.route, blocked |-> blocked])]
    IN Add(calculate_route(m.r, m.net, start_pos, dest_pos))

\* TrafficModel._compute_congestion_level with _compute_avg_speed, in
\* ten-thousandths; the configured vehicle max_speed is the speed of the
\* standard type
compute_congestion_level(vehicles_m) ==
    LET active_speeds == SelectSeq(vehicles_m, LAMBDA v : v.active)
        total == SumOver([i \in 1..Len(active_speeds) |-> active_speeds[i].speed],
                         1..Len(active_speeds))
        max_speed == DefaultMaxSpeed
    IN IF vehicles_m = <<>> THEN 0
       ELSE IF active_speeds = <<>> THEN 10000
       ELSE (10000 * (Len(active_speeds) * max_speed - total))
                \div (Len(active_speeds) * max_speed)

\* should_generate_vehicle: whether the generation rate is positive
should_generate_vehicle(scenario_info, step) ==
    LET elapsed == step * time_step - scenario_info.start_time
    IN 0 < elapsed /\ elapsed < scenario_info.duration

\* run_scenario_step with the origin, destination and type drawn
run_scenario_step(m, drawn) ==
    LET created == create_vehicle(m,
                       "rush_hour_vehicle_" \o ToString(m.rush.vehicles_created),
                       drawn.vehicle_type, drawn.origin, drawn.destination)
    IN [created EXCEPT !.rush.vehicles_created = @ + 1]

\* the ids of the agents of the schedule
ScheduleIds(m) ==
    {m.cm.unique_id}
        \cup {m.intersections[i].unique_id : i \in 1..Len(m.intersections)}
        \cup {m.vehicles[i].unique_id : i \in 1..Len(m.vehicles)}

\* what an agent reads of the model during its step
World(m) ==
    [vehicles |-> m.vehicles,
     intersections |-> m.intersections,
     agents |-> ScheduleIds(m),
     net |-> m.net,
     current_step |-> m.step,
     use_q_learning |-> use_q_learning]

\* the writes an agent made into inboxes during its step, in order
DeliverAll(m0, out) ==
        \* receive_message on the agent of the given id
    LET ReceiveAt(m, id, message) ==
            IF id = m.cm.unique_id THEN [m EXCEPT !.cm = receive_message(@, message)]
            ELSE [m EXCEPT
                    !.intersections = [i \in 1..Len(@) |->
                        IF @[i].unique_id = id THEN receive_message(@[i], message) ELSE @[i]],
                    !.vehicles = [i \in 1..Len(@) |->
                        IF @[i].unique_id = id THEN receive_message(@[i], message) ELSE @[i]]]
    IN
    LET RECURSIVE Go(_, _)
        Go(i, m) ==
            IF i > Len(out) THEN m
            ELSE Go(i + 1, [ReceiveAt(m, out[i].to, out[i].msg) EXCEPT
                              !.written = @ \cup {out[i].to},
                              !.wrote_direct = @ \/ out[i].via = "direct"])
    IN Go(1, m0)

\* history: one entry per such pair, with whether the request was written
Expected(m, out) ==
        \* the emergency vehicles the crisis manager is about to perceive with an
        \* intersection within 300 m of a waypoint of their route, or of their
        \* position when they have no route
    LET NearPairs(m_n) ==
            {<<v, a>> \in (1..Len(m_n.vehicles)) \X (1..Len(m_n.intersections)) :
                /\ m_n.vehicles[v].active
                /\ m_n.vehicles[v].vehicle_type \in EmergencyVehicleType
                /\ IF m_n.vehicles[v].current_route # <<>>
                   THEN \E k \in 1..Len(m_n.vehicles[v].current_route) :
                           calculate_distance(m_n.intersections[a].position,
                                              m_n.vehicles[v].current_route[k]) < GreenWaveRadius
                   ELSE calculate_distance(m_n.intersections[a].position,
                                           m_n.vehicles[v].position) < GreenWaveRadius}
    IN
    LET pairs == NearPairs(m)
        ordered == SelectSeq(
            [k \in 1..(Len(m.vehicles) * Len(m.intersections)) |->
                <<((k - 1) \div Len(m.intersections)) + 1,
                  ((k - 1) % Len(m.intersections)) + 1>>],
            LAMBDA p : p \in pairs)
    IN [k \in 1..Len(ordered) |->
           [to |-> m.intersections[ordered[k][2]].unique_id,
            vehicle_id |-> m.vehicles[ordered[k][1]].unique_id,
            vehicle_position |-> m.vehicles[ordered[k][1]].position,
            sent |-> m.step,
            requested |-> \E i \in 1..Len(out) :
                /\ out[i].to = m.intersections[ordered[k][2]].unique_id
                /\ out[i].msg.performative = "request"
                /\ Get(out[i].msg.content, "type", "") = "emergency_priority"
                /\ out[i].msg.content.vehicle_id = m.vehicles[ordered[k][1]].unique_id,
            handled |-> FALSE,
            acked |-> FALSE,
            approach |-> "north",
            could_act |-> FALSE]]

\* the activation of the agent of the given id
StepAgent(m, id, action) ==
        \* the crisis manager's activation
    LET StepCrisisManager(m_s) ==
            LET Deliver(c) ==
                    DeliverAll([m_s EXCEPT
                                  !.cm = c.s,
                                  !.same_tick = @ \/ m_s.cm.unique_id \in m_s.written,
                                  !.requests = @ \o Expected(m_s, c.out)],
                               c.out)
            IN Deliver(cm_step(m_s.cm, World(m_s)))
    IN
        \* history: the requests that the intersection id has handled in the step
        \* that left the given emergency_log and acknowledgements
    LET Handled(reqs, id_h, log, acks) ==
            LET Mine(j) == /\ reqs[j].to = id_h /\ reqs[j].requested /\ ~reqs[j].handled
                Rank(j) == Cardinality({k \in 1..j :
                               Mine(k) /\ reqs[k].vehicle_id = reqs[j].vehicle_id})
                Entries(j) == {e \in 1..Len(log) :
                                  /\ log[e].vehicle_id = reqs[j].vehicle_id
                                  /\ Cardinality({x \in 1..e :
                                         log[x].vehicle_id = reqs[j].vehicle_id}) = Rank(j)}
            IN [j \in 1..Len(reqs) |->
                   IF Mine(j) /\ Entries(j) # {}
                   THEN LET e == CHOOSE x \in Entries(j) : TRUE
                        IN [reqs[j] EXCEPT
                              !.handled = TRUE,
                              !.acked = e <= acks,
                              !.approach = log[e].approach,
                              !.could_act =
                                  /\ log[e].lights_before[log[e].approach] = "red"
                                  /\ FloorMet(log[e].lights_before, log[e].timers_before)]
                   ELSE reqs[j]]
    IN
        \* the activation of the i-th intersection
    LET StepIntersection(m_s, i, action_s) ==
            LET Deliver(c) ==
                    DeliverAll([m_s EXCEPT
                                  !.intersections[i] = c.s,
                                  !.same_tick =
                                      @ \/ m_s.intersections[i].unique_id \in m_s.written,
                                  !.requests = Handled(@, m_s.intersections[i].unique_id,
                                      c.s.emergency_log,
                                      Cardinality({k \in 1..Len(c.out) :
                                          Get(c.out[k].msg.content, "type", "")
                                              = "emergency_acknowledged"}))],
                               c.out)
            IN Deliver(ix_step(m_s.intersections[i], World(m_s), action_s))
    IN
        \* the activation of the j-th vehicle
    LET StepVehicle(m_s, j) ==
            LET Deliver(c) ==
                    DeliverAll([m_s EXCEPT
                                  !.vehicles[j] = c.s,
                                  !.r = c.r,
                                  !.same_tick = @ \/ (/\ m_s.vehicles[j].active
                                                      /\ m_s.vehicles[j].unique_id
                                                            \in m_s.written)],
                               c.out)
            IN Deliver(veh_step(m_s.vehicles[j], m_s.r, World(m_s)))
    IN
    IF id = m.cm.unique_id THEN StepCrisisManager(m)
    ELSE IF \E i \in 1..Len(m.intersections) : m.intersections[i].unique_id = id
    THEN StepIntersection(m,
             CHOOSE i \in 1..Len(m.intersections) : m.intersections[i].unique_id = id,
             action)
    ELSE StepVehicle(m,
             CHOOSE j \in 1..Len(m.vehicles) : m.vehicles[j].unique_id = id)

\* _check_arrived_vehicles leaving the arrived vehicles in the list, to be
\* counted again by the next step
check_arrived_vehicles_kept(m) ==
    [m EXCEPT
       !.totals.vehicles_arrived =
           @ + Cardinality({j \in 1..Len(m.vehicles) : ~m.vehicles[j].active}),
       !.arrived = SelectSeq(m.vehicles, LAMBDA v : ~v.active)]

\* _check_arrived_vehicles removing the arrived vehicles without counting them
check_arrived_vehicles_uncounted(m) ==
    [m EXCEPT
       !.arrived = SelectSeq(m.vehicles, LAMBDA v : ~v.active),
       !.vehicles = SelectSeq(@, LAMBDA v : v.active)]

\* _check_arrived_vehicles
check_arrived_vehicles(m) ==
    [m EXCEPT
       !.totals.vehicles_arrived =
           @ + Cardinality({j \in 1..Len(m.vehicles) : ~m.vehicles[j].active}),
       !.arrived = SelectSeq(m.vehicles, LAMBDA v : ~v.active),
       !.vehicles = SelectSeq(@, LAMBDA v : v.active)]

\* _run_scenarios: the rush hour, then the incident
run_scenarios(m, drawn) ==
    LET Merge(rushed, after) ==
            [rushed EXCEPT
               !.incident = <<after.sc>>,
               !.net = after.w.net,
               !.cm = after.w.cm,
               !.intersections = after.w.intersections,
               !.vehicles = after.w.vehicles]
        Incident(rushed) ==
            IF rushed.incident = <<>> THEN rushed
            ELSE Merge(rushed,
                       incident_step(rushed.incident[1],
                                     [net |-> rushed.net, cm |-> rushed.cm,
                                      intersections |-> rushed.intersections,
                                      vehicles |-> rushed.vehicles],
                                     rushed.step))
    IN Incident(IF /\ should_generate_vehicle(m.rush, m.step)
                   /\ drawn.vehicle_type # "none"
                THEN run_scenario_step(m, drawn)
                ELSE m)

\* TrafficModel.step: no agent fills its outbox, so _route_pending_messages
\* moves nothing; schedule.step() activates the agents in the drawn order
model_step(m0, order, drawn, action) ==
    LET RECURSIVE Activate(_, _)
        Activate(i, m) == IF i > Len(order) THEN m
                          ELSE Activate(i + 1, StepAgent(m, order[i], action))
    IN [run_scenarios(check_arrived_vehicles(Activate(1, [m0 EXCEPT !.written = {}])),
                      drawn)
        EXCEPT !.step = @ + 1,
               !.requests = SelectSeq(@, LAMBDA q : q.sent >= m0.step - 1)]

----------------------------------------------------------------------------
(* The simulation, tick by tick                                            *)
(* SpecTick: the crisis manager, the intersection I and the vehicles that  *)
(* the rush hour creates, among them an ambulance driving through I.       *)
(* SpecIncident: the vehicles of the rush hour on the grid while the road  *)
(* between two of its nodes is blocked by the incident.                    *)

MaxTripTicks == 50
MaxPairTicks == 20
RoadWidth == 30000
RoadHeight == 30000
MaxSimTicks == 17
MaxIncTicks == 6
RushDuration == 2

\* the model as the fields of TrafficModel
Model ==
    [cm |-> cm, intersections |-> intersections, vehicles |-> vehicles,
     net |-> road_network, r |-> router, incident |-> incident, rush |-> rush,
     totals |-> totals, step |-> current_step, requests |-> requests,
     wrote_direct |-> wrote_direct, same_tick |-> same_tick, routed |-> routed,
     written |-> {}, arrived |-> <<>>]

\* everything the simulation leaves alone
SimFrame ==
    /\ cm_sent = <<>>
    /\ cnp_props = <<>>
    /\ cnp_next = 1
    /\ ix = IntersectionAgent(IxId, IxPos, <<N1>>)
    /\ use_q_learning = FALSE
    /\ current_step = 0
    /\ sent = <<>>
    /\ ix_vehicles = <<>>
    /\ delivered = 0
    /\ time_step = 1
    /\ requests = <<>>
    /\ wrote_direct = FALSE
    /\ same_tick = FALSE
    /\ routed = <<>>
    /\ road_network = create_grid_network(RoadWidth, RoadHeight, CellSize)
    /\ cm = [CrisisManagerAgent(CrisisId) EXCEPT
               !.position = <<RoadWidth \div 2, RoadHeight \div 2>>]

TickInit ==
        \* an ambulance that drives west to east through I, a police car that
        \* drives north to south through I
    LET TickOptions ==
            {[vehicle_type |-> "ambulance", origin |-> <<10000, 10000>>,
              destination |-> <<30000, 10000>>],
             [vehicle_type |-> "police", origin |-> <<20000, 30000>>,
              destination |-> <<20000, 0>>]}
    IN
    LET TickStarts == {6, 11, 12}
    IN
    /\ SimFrame
    /\ totals = [vehicles_created |-> 0, vehicles_arrived |-> 0]
    /\ vehicles = <<>>
    /\ observed = <<>>
    /\ intersections = <<IntersectionAgent(IxId, IxPos, <<>>)>>
    /\ router = DynamicRouter(TRUE)
    /\ incident = <<>>
    /\ \E start \in TickStarts :
          rush = [start_time |-> start, duration |-> RushDuration,
                  options |-> TickOptions, vehicles_created |-> 0]

\* TrafficModel.step
SimStep(order, drawn) ==
    /\ current_step < (IF incident # <<>> THEN MaxIncTicks
                       ELSE IF intersections # <<>> THEN MaxSimTicks
                       ELSE IF totals.vehicles_created > 1 THEN MaxPairTicks
                       ELSE MaxTripTicks)
    /\ \E m \in {model_step(Model, order, drawn, "keep")} :
          /\ cm' = m.cm
          /\ intersections' = m.intersections
          /\ vehicles' = m.vehicles
          /\ road_network' = m.net
          /\ router' = m.r
          /\ incident' = m.incident
          /\ rush' = m.rush
          /\ totals' = m.totals
          /\ current_step' = m.step
          /\ requests' = m.requests
          /\ wrote_direct' = m.wrote_direct
          /\ same_tick' = m.same_tick
          /\ routed' = m.routed
          /\ observed' = m.arrived
    /\ UNCHANGED <<cm_sent, cnp_props, cnp_next, ix, use_q_learning, sent,
                   ix_vehicles, delivered, time_step>>

SimNext ==
        \* what the rush hour draws when it creates no vehicle
    LET NoVehicle == [vehicle_type |-> "none", origin |-> <<0, 0>>, destination |-> <<0, 0>>]
    IN
        \* the orders in which RandomActivation may activate the agents
    LET Orders(ids) ==
            {o \in [1..Cardinality(ids) -> ids] :
                \A i, j \in 1..Cardinality(ids) : i # j => o[i] # o[j]}
    IN
    \E order \in Orders(ScheduleIds(Model)) :
        \E drawn \in (IF should_generate_vehicle(rush, current_step)
                      THEN rush.options \cup {NoVehicle} ELSE {NoVehicle}) :
            SimStep(order, drawn)

SpecTick == TickInit /\ [][SimNext]_vars

\* the incident blocks the road between the nodes at (100 m, 100 m) and
\* (200 m, 100 m), from IncidentStart and for IncidentDuration seconds
IncidentStart == 1
IncidentDuration == 3
RushWindow == 4

IncidentInit ==
        \* a road between two neighbouring nodes; a road whose zone holds the
        \* four nodes around the corner (200 m, 200 m), which the blockage
        \* cuts off from the network
    LET IncidentCoords == {<<<<10000, 10000>>, <<20000, 10000>>>>,
                           <<<<10000, 10000>>, <<20000, 20000>>>>}
    IN
        \* a car whose shortest way runs over the blocked road, a car that
        \* crosses the grid beside it, a car bound for the corner
    LET IncidentOptions ==
            {[vehicle_type |-> "standard", origin |-> <<0, 10000>>,
              destination |-> <<20000, 10000>>],
             [vehicle_type |-> "standard", origin |-> <<10000, 0>>,
              destination |-> <<10000, 20000>>],
             [vehicle_type |-> "standard", origin |-> <<0, 20000>>,
              destination |-> <<20000, 20000>>]}
    IN
    /\ SimFrame
    /\ totals = [vehicles_created |-> 0, vehicles_arrived |-> 0]
    /\ vehicles = <<>>
    /\ observed = <<>>
    /\ intersections = <<>>
    /\ \E use_astar \in BOOLEAN : router = DynamicRouter(use_astar)
    /\ \E coords \in IncidentCoords :
          incident = <<IncidentScenario(IncidentStart, IncidentDuration, coords)>>
    /\ rush = [start_time |-> -1, duration |-> RushWindow,
               options |-> IncidentOptions, vehicles_created |-> 0]

SpecIncident == IncidentInit /\ [][SimNext]_vars

----------------------------------------------------------------------------
(* A trip across the grid                                                  *)
(* SpecTrip: a vehicle of max_speed 10 m/s (1000 cm/s) created at (0, 0),  *)
(* bound for (200 m, 200 m), alone or behind a slower vehicle that         *)
(* stands on its way; no intersection, no scenario.                        *)

TripInit ==
        \* _create_vehicle with the given max_speed
    LET Created(id, start_pos, dest_pos, max_speed, r) ==
            [VehicleAgent(id, start_pos, dest_pos, max_speed, "standard") EXCEPT
               !.current_route = calculate_route(r, road_network, start_pos, dest_pos).route]
        \* the vehicles of a run: <<start position, max_speed>> each
        Fleets == {<< <<<<0, 0>>, 1000>> >>,
                   << <<<<0, 0>>, 1000>>, <<<<0, 3000>>, 300>> >>,
                   << <<<<0, 0>>, 1000>>, <<<<0, 3000>>, 600>> >>,
                   << <<<<20000, 17000>>, 1000>>, <<<<17000, 20000>>, 1000>> >>,
                   << <<<<20000, 19500>>, 1000>>, <<<<20000, 15000>>, 600>> >>}
    IN
    /\ SimFrame
    /\ intersections = <<>>
    /\ incident = <<>>
    /\ rush = [start_time |-> 0, duration |-> 0, options |-> {}, vehicles_created |-> 0]
    /\ observed = <<>>
    /\ \E use_astar \in BOOLEAN, fleet \in Fleets :
          \E first \in {calculate_route(DynamicRouter(use_astar), road_network,
                                        fleet[1][1], <<20000, 20000>>).r} :
             /\ vehicles = [i \in 1..Len(fleet) |->
                               Created(IF i = 1 THEN "vehicle_0" ELSE "vehicle_1",
                                       fleet[i][1], <<20000, 20000>>, fleet[i][2],
                                       IF i = 1 THEN DynamicRouter(use_astar) ELSE first)]
             /\ router = IF Len(fleet) = 1 THEN first
                         ELSE calculate_route(first, road_network,
                                              fleet[2][1], <<20000, 20000>>).r
             /\ totals = [vehicles_created |-> Len(fleet), vehicles_arrived |-> 0]

SpecTrip == TripInit /\ [][SimNext]_vars

----------------------------------------------------------------------------
(* One router on the 3 x 3 grid                                            *)
(* find_path is called with the positions of a few queries; observed      *)
(* records each call: the positions, the nodes they snap to, the route     *)
(* returned, the cache and the counters before the call, the pairs asked   *)
(* before, and for every cache key the call that inserted it.              *)

RouterCacheSize == 3
MaxQueries == 5

RouterInit ==
    /\ SimFrame
    /\ totals = [vehicles_created |-> 0, vehicles_arrived |-> 0]
    /\ vehicles = <<>>
    /\ intersections = <<>>
    /\ incident = <<>>
    /\ rush = [start_time |-> 0, duration |-> 0, options |-> {}, vehicles_created |-> 0]
    /\ \E use_astar \in BOOLEAN :
          router = [DynamicRouter(use_astar) EXCEPT !.cache_size = RouterCacheSize]
    /\ observed = [count |-> 0, asked |-> {}, born |-> <<>>, last |-> <<>>]

\* DynamicRouter.find_path(start_pos, end_pos)
FindPath ==
        \* the queries: four between different pairs of the nodes (0, 0),
        \* (100, 0) and (100, 100), two from a position 22 m from the node (0, 0)
    LET Queries ==
            {<<<<0, 0>>, <<10000, 0>>>>, <<<<0, 0>>, <<10000, 10000>>>>,
             <<<<10000, 0>>, <<0, 0>>>>, <<<<10000, 10000>>, <<0, 0>>>>,
             <<<<2000, 1000>>, <<10000, 10000>>>>, <<<<2000, 1000>>, <<0, 0>>>>}
        \* the keys of the route cache
        CacheKeys(r) == {r.route_cache[i].key : i \in 1..Len(r.route_cache)}
    IN
    /\ observed.count < MaxQueries
    /\ \E q \in Queries :
        \E found \in {calculate_route(router, road_network, q[1], q[2])} :
        \* the cache key of the query: the ids of the nearest nodes
        \E key \in {<<get_nearest_node(road_network, q[1]).id,
                       get_nearest_node(road_network, q[2]).id>>} :
          /\ router' = found.r
          /\ observed' =
                [count |-> observed.count + 1,
                 asked |-> observed.asked \cup {key},
                 born |-> IF CacheKeys(found.r) = CacheKeys(router) THEN observed.born
                          ELSE Put(observed.born, key, observed.count + 1),
                 last |-> [start_pos |-> q[1],
                           end_pos |-> q[2],
                           key |-> key,
                           route |-> found.route,
                           before |-> router,
                           asked_before |-> observed.asked]]
    /\ UNCHANGED <<time_step, ixVars, cnpVars, intersections, vehicles, road_network,
                   incident, rush, totals, requests, wrote_direct, same_tick, routed>>

SpecRouter == RouterInit /\ [][FindPath]_vars

----------------------------------------------------------------------------
(* Replies                                                                 *)
(* A message is created, or the last reply is taken, and replied to;       *)
(* observed records the message before and after the call and the reply.   *)

MaxReplies == 3

ReplyInit ==
    /\ CnpIdle
    /\ IxIdle
    /\ SimIdle
    /\ time_step = 1
    /\ observed = [count |-> 0, reply |-> <<>>]

\* message.create_reply(performative, content)
CreateReply ==
    LET Ids == {"msg_1", "msg_2"}
        Created ==
            {FIPAMessage(sender, receiver, performative, [type |-> "test"], conversation_id)
                @@ [ontology |-> None, protocol |-> protocol, reply_to |-> None,
                    message_id |-> message_id] :
                sender \in {"vehicle_0", "intersection_0"},
                receiver \in {"intersection_0", "crisis_manager"},
                performative \in {"request"},
                conversation_id \in {None, "cnp_1"},
                protocol \in {None, "contract-net"},
                message_id \in Ids}
    IN
    /\ observed.count < MaxReplies
    /\ \E message \in Created \cup (IF observed.count = 0 THEN {} ELSE {observed.reply}),
          performative \in {"agree", "PROPOSE"}, message_id \in Ids :
        \E made \in {create_reply(message, performative, [status |-> "ok"], message_id)} :
          observed' = [count |-> observed.count + 1,
                       original |-> message,
                       after |-> made.self,
                       reply |-> made.reply]
    /\ UNCHANGED <<time_step, ixVars, cnpVars, simVars>>

SpecReply == ReplyInit /\ [][CreateReply]_vars

----------------------------------------------------------------------------
(* Properties of the traffic lights (SpecIx) *)

\* C1: in every reachable state of an intersection with the four default
\* directions, exactly one of the groups {north, south} and {east, west} is
\* entirely green and the other entirely red.
C1_LightExclusivity ==
    \/ GroupIsGreen(ix.traffic_lights, "north")
    \/ GroupIsGreen(ix.traffic_lights, "east")

\* the east-west group is green after a natural change and a forced one
C1_Witness ==
    /\ GroupIsGreen(ix.traffic_lights, "east")
    /\ ix.phase_changes >= 2
    /\ ix.last_force.called
    /\ ix.last_force.lights_after # ix.last_force.lights_before

C9_MaxGreenBounded ==
    ~use_q_learning => ix.cont_green <= MaxGreenTime + time_step

----------------------------------------------------------------------------
(* Properties of the Contract-Net arbitration (SpecCnp) *)

\* C3: once the crisis manager has received and handled the k >= 2 proposals
\* of a conversation it has sent exactly one accept-proposal, to the sender
\* of a proposal of maximum availability, exactly k-1 reject-proposal
\* messages, one to each other proposer, and it holds no stored proposal of
\* the conversation.
C3_CnpArbitration ==
        \* the messages of a performative among those the crisis manager has sent
    LET CmSent(performative) ==
            {i \in 1..Len(cm_sent) : cm_sent[i].msg.performative = performative}
    IN
        \* the conversation is over: every proposal has arrived and has been handled
    LET CnpSettled == cnp_next > Len(cnp_props) /\ cm.message_inbox = <<>>
    IN
    CnpSettled /\ Len(cnp_props) >= 2 =>
        /\ Cardinality(CmSent("accept-proposal")) = 1
        /\ \A i \in CmSent("accept-proposal") :
              \E p \in 1..Len(cnp_props) :
                 /\ cnp_props[p].sender = cm_sent[i].to
                 /\ \A q \in 1..Len(cnp_props) :
                       cnp_props[q].content.availability
                           <= cnp_props[p].content.availability
        /\ Cardinality(CmSent("reject-proposal")) = Len(cnp_props) - 1
        /\ \A p \in 1..Len(cnp_props) :
              Cardinality({i \in CmSent("accept-proposal") \cup CmSent("reject-proposal") :
                              cm_sent[i].to = cnp_props[p].sender}) = 1
        /\ StoredProposals(cm, "default") = <<>>

----------------------------------------------------------------------------
(* Properties of the mailboxes (SpecMailbox) *)

\* C5: the inbox of an agent never holds more messages than the mailbox
\* bound max_size; a message arriving at a full inbox evicts the oldest
\* entry, so the bound is kept.
C5_MailboxBound == Len(cm.message_inbox) <= MaxSize

----------------------------------------------------------------------------
(* Properties of the simulation (SpecTick) *)

\* C4: no agent writes into another agent's inbox itself, and no agent
\* handles a message in the tick in which the message was written
C4_BusOnly == ~wrote_direct /\ ~same_tick

\* the request was written two ticks ago: the tick after it has ended
Due(q) == q.sent = current_step - 2

\* the green group of the intersection of the request is the approach group
GreenFor(q) ==
    \E i \in 1..Len(intersections) :
        /\ intersections[i].unique_id = q.to
        /\ GroupIsGreen(intersections[i].traffic_lights, q.approach)

----------------------------------------------------------------------------
(* Properties of the simulation with the incident (SpecIncident) *)

\* C7: no route returned by the model's router while an edge is removed has
\* two consecutive waypoints at the positions of the ends of that edge
C7_NoBlockedHop ==
    \A e \in 1..Len(routed) :
        \A k \in 1..(Len(routed[e].route) - 1) :
            \A b \in 1..Len(routed[e].blocked) :
                {routed[e].route[k], routed[e].route[k + 1]} # routed[e].blocked[b]

\* C8: an active vehicle that has processed an inform with a congestion
\* level of at least 0.7 or the reason 'incident' holds the congestion belief
\* of that message
C8_AlertBelieved ==
    \A v \in 1..Len(vehicles) :
        vehicles[v].alerts_seen > 0 => vehicles[v].congestion.held

----------------------------------------------------------------------------
(* Properties of the routers (SpecRouter) *)

\* C11: the route cache never holds more than cache_size entries, and an
\* insertion into a full cache evicts the entry that was inserted earliest
\* (the others stay); a pair that is not in the cache is counted as a miss.
C11_CacheFifo ==
    LET CacheKeys(r) == {r.route_cache[i].key : i \in 1..Len(r.route_cache)}
    IN
    /\ Len(router.route_cache) <= router.cache_size
    /\ observed.last # <<>> =>
        /\ /\ observed.last.key \in CacheKeys(router) \ CacheKeys(observed.last.before)
           /\ Len(observed.last.before.route_cache) >= router.cache_size
           => \E old \in CacheKeys(observed.last.before) :
                 /\ CacheKeys(router) =
                       (CacheKeys(observed.last.before) \ {old}) \cup {observed.last.key}
                 /\ \A k \in CacheKeys(observed.last.before) \ {old} :
                       observed.born[old] < observed.born[k]
        /\ /\ router.use_astar
           /\ observed.last.key[1] # observed.last.key[2]
           /\ observed.last.key \notin CacheKeys(observed.last.before)
           => router.cache_misses = observed.last.before.cache_misses + 1

\* Q1 = (0,0)->(100,0), Q2 = (0,0)->(100,100), Q3 = (100,0)->(0,0),
\* Q4 = (100,100)->(0,0), then Q1 again: a miss, and the cache holds Q3, Q4, Q1
C11_Witness ==
    /\ observed.count = 5
    /\ observed.last.key = <<NodeId(<<0, 0>>), NodeId(<<10000, 0>>)>>
    /\ observed.last.key \in observed.last.asked_before
    /\ [i \in 1..Len(observed.last.before.route_cache) |->
           observed.last.before.route_cache[i].key]
          = <<<<NodeId(<<0, 0>>), NodeId(<<10000, 10000>>)>>,
              <<NodeId(<<10000, 0>>), NodeId(<<0, 0>>)>>,
              <<NodeId(<<10000, 10000>>), NodeId(<<0, 0>>)>>>>
    /\ router.cache_misses = observed.last.before.cache_misses + 1
    /\ [i \in 1..Len(router.route_cache) |-> router.route_cache[i].key]
          = <<<<NodeId(<<10000, 0>>), NodeId(<<0, 0>>)>>,
              <<NodeId(<<10000, 10000>>), NodeId(<<0, 0>>)>>,
              <<NodeId(<<0, 0>>), NodeId(<<10000, 0>>)>>>>

C13_RouteSnapping ==
    observed.last # <<>> /\ observed.last.route # <<>> =>
        /\ observed.last.route[1] = observed.last.start_pos
        /\ observed.last.route[Len(observed.last.route)] = observed.last.end_pos
        /\ observed.last.key[1] = observed.last.key[2] =>
              observed.last.route = <<observed.last.start_pos, observed.last.end_pos>>

\* the Dijkstra router has answered a query from a position off the grid's nodes
C13_Witness ==
    /\ ~router.use_astar
    /\ observed.last # <<>>
    /\ observed.last.start_pos = <<2000, 1000>>
    /\ Len(observed.last.route) >= 3

----------------------------------------------------------------------------
(* Properties of the messages (SpecReply) *)

\* C14: a reply R = M.create_reply(performative, content) has R.reply_to =
\* M.message_id, R.sender = M.receiver, R.receiver = M.sender and M's
\* conversation_id; M itself is unchanged.
C14_ReplyIdentity ==
    observed.count > 0 =>
        /\ observed.reply.reply_to = observed.original.message_id
        /\ observed.reply.sender = observed.original.receiver
        /\ observed.reply.receiver = observed.original.sender
        /\ observed.reply.conversation_id = observed.original.conversation_id
        /\ observed.after = observed.original

\* a reply to a reply within a conversation
C14_Witness ==
    /\ observed.count >= 2
    /\ observed.original.reply_to # None
    /\ observed.original.conversation_id = "cnp_1"
    /\ observed.reply.reply_to = observed.original.message_id
    /\ observed.reply.sender # observed.reply.receiver
    /\ observed.reply.performative = "propose"

----------------------------------------------------------------------------
(* Properties of the belief store (SpecIx) *)

\* C15: after the perceive phase of a BDI step, with its removal of outdated
\* beliefs, no belief remains in the store whose age now - timestamp is 10 s
\* or more (now being the agent's time during that step); a belief is valid
\* exactly when now - timestamp < 10.
C15_BeliefValidity ==
    ix.current_time > 0 =>
        \A t \in DOMAIN ix.beliefs :
            (ix.current_time - time_step) - ix.beliefs[t] < BeliefValidity

\* the beliefs of the construction have been removed, those that perceive
\* refreshes are held
C15_Witness ==
    /\ ix.current_time - time_step = BeliefValidity
    /\ "position" \notin DOMAIN ix.beliefs
    /\ "neighbors" \notin DOMAIN ix.beliefs
    /\ ix.beliefs["congestion"] = ix.current_time - time_step

----------------------------------------------------------------------------
(* Properties of a trip (SpecTrip) *)

\* C16: on the 3x3 grid with 100 m spacing, a single vehicle with origin
\* (0,0), destination (200,200), max_speed 10 m/s and a 1 s time step becomes
\* inactive after between 26 and 30 ticks, having reached its destination
\* with route_changes equal to 0.
C16_StraightRoute ==
    [][totals.vehicles_created = 1 =>
          /\ (vehicles # <<>> /\ vehicles' = <<>>) =>
                 /\ current_step' \in 26..30
                 /\ is_at_destination(vehicles[1])
                 /\ vehicles[1].route_changes = 0
          /\ current_step' >= 30 => vehicles' = <<>>
          /\ vehicles' # <<>> => vehicles'[1].active]_vars

\* C16 as the code has it: the route follows the edges of the grid (400 m)
\* and the vehicle starts from rest with 2 m/s^2, so that it becomes
\* inactive after between 41 and 45 ticks, having reached its destination
\* with route_changes equal to 0.
C16_StraightRouteOnGrid ==
    [][totals.vehicles_created = 1 =>
          /\ (vehicles # <<>> /\ vehicles' = <<>>) =>
                 /\ current_step' \in 41..45
                 /\ is_at_destination(vehicles[1])
                 /\ vehicles[1].route_changes = 0
          /\ current_step' >= 45 => vehicles' = <<>>
          /\ vehicles' # <<>> => vehicles'[1].active]_vars

\* the single vehicle has arrived and left the fleet in tick 43
C16_Witness ==
    /\ totals.vehicles_created = 1
    /\ totals.vehicles_arrived = 1
    /\ vehicles = <<>>
    /\ current_step = 43

----------------------------------------------------------------------------
(* Properties of the Max-Pressure policy at a lone intersection (SpecPressure) *)

\* C17: for a single intersection without neighbours under Max-Pressure,
\* starting NS green with a NORTH queue of 20 held constant and all other
\* queues 0, the green phase is NS at every tick until the NS green timer
\* exceeds max_green_time; no phase change happens earlier, and the change
\* happens in the tick in which the timer exceeds it.
C17_PressureHoldsGreen ==
    /\ ix.current_time <= MaxGreenTime =>
           /\ get_current_phase(ix) = "NS"
           /\ ix.traffic_lights["north"] = "green"
           /\ ix.light_timers["north"] = ix.current_time
           /\ ix.phase_changes = 0
    /\ ix.current_time > MaxGreenTime => ix.phase_changes >= 1
    /\ ix.phase_changes = 1 =>
           ix.current_time - ix.light_timers["east"] \in
               (MaxGreenTime + 1)..(MaxGreenTime + time_step)

\* NS has been green for exactly max_green_time, 20 vehicles queued from the
\* north, and no phase change has happened
C17_Witness ==
    /\ ix.neighbors = <<>>
    /\ ix.queue_lengths = [north |-> 20, south |-> 0, east |-> 0, west |-> 0]
    /\ get_current_phase(ix) = "NS"
    /\ ix.light_timers["north"] = MaxGreenTime
    /\ ix.phase_changes = 0

\* C18: in every reachable state of a vehicle, after any sequence of
\* MoveForward, Accelerate, Decelerate and Stop intentions produced by its
\* deliberation, 0 <= speed <= max_speed.
C18_SpeedBounds ==
    \A i \in 1..Len(vehicles) :
        /\ 0 <= vehicles[i].speed
        /\ vehicles[i].speed <= vehicles[i].max_speed

\* the faster vehicle has braked for the slower one, which MoveForward holds
\* at its max_speed
C18_Witness ==
    /\ Len(vehicles) = 2
    /\ vehicles[1].speed > 0
    /\ vehicles[1].speed < vehicles[1].max_speed
    /\ vehicles[1].travel_time > 5
    /\ ~vehicles[1].is_stopped
    /\ vehicles[2].speed = vehicles[2].max_speed
    /\ vehicles[2].max_speed % (Acceleration * time_step) # 0

----------------------------------------------------------------------------
(* Properties of the stored neighbour states (SpecIx) *)

\* C20: a neighbour snapshot whose age exceeds 30 s is ignored by every
\* decision of the intersection that reads neighbour state: green-wave
\* scheduling, the Max-Pressure downstream-queue estimate, and the neighbour
\* bonus of a new green duration. Each of the three gives the same result
\* as it gives without the snapshots older than 30 s.
C20_StaleIgnored ==
    LET fresh == [ix EXCEPT !.neighbor_states =
                     SelectSeq(@, LAMBDA e :
                                 ix.current_time - e.state.timestamp <= MaxStaleAge)]
    IN /\ [apply_neighbor_coordination(ix) EXCEPT
              !.neighbor_states = fresh.neighbor_states]
             = apply_neighbor_coordination(fresh)
       /\ \A d \in Directions :
             estimate_downstream_queue(ix, d) = estimate_downstream_queue(fresh, d)
       /\ max_pressure_decision(ix) = max_pressure_decision(fresh)
       /\ change_traffic_light_phase(ix)[1].green_durations
             = change_traffic_light_phase(fresh)[1].green_durations

----------------------------------------------------------------------------
(* Properties of a failed change of route (SpecIncident) *)

\* C21: when the router returns no path during a ChangeRoute intention, the
\* vehicle's current route, waypoint index and route_changes are left
\* unchanged, the intention ends with status failed, no error propagates
\* out of the agent's step, and the vehicle keeps stepping on later ticks.
\* A vehicle without a route takes the intention in every tick; for a vehicle
\* with a route the execution of the intention is compared on its state.
C21_RouteNotFound ==
    [][\A i \in 1..Len(vehicles) :
          calculate_route(router, road_network, vehicles[i].position,
                          vehicles[i].destination).route = <<>>
          => /\ recalculate_route(VCtx(vehicles[i], router, <<>>),
                                   [net |-> road_network]).s
                   = [vehicles[i] EXCEPT !.change_route_status = "failed"]
             /\ vehicles[i].current_route = <<>> =>
                   \E j \in 1..Len(vehicles') :
                      /\ vehicles'[j].unique_id = vehicles[i].unique_id
                      /\ vehicles'[j].current_route = vehicles[i].current_route
                      /\ vehicles'[j].current_waypoint_index
                            = vehicles[i].current_waypoint_index
                      /\ vehicles'[j].route_changes = vehicles[i].route_changes
                      /\ vehicles'[j].change_route_status = "failed"
                      /\ ~vehicles'[j].failed
                      /\ vehicles'[j].active
                      /\ vehicles'[j].travel_time = vehicles[i].travel_time + time_step
                      /\ vehicles'[j].current_time
                            = vehicles[i].current_time + time_step]_vars

\* while the corner is cut off, a vehicle created without a route has failed
\* to find one in its first tick, and a vehicle on its way to the corner
\* holds a route that the router could not replace
C21_Witness ==
    /\ incident[1].incident_active
    /\ \E i, j \in 1..Len(vehicles) :
          /\ vehicles[i].current_route = <<>>
          /\ vehicles[i].change_route_status = "failed"
          /\ vehicles[i].travel_time = time_step
          /\ vehicles[i].route_changes = 0
          /\ vehicles[i].active
          /\ vehicles[j].current_route # <<>>
          /\ vehicles[j].current_waypoint_index > 0
          /\ calculate_route(router, road_network, vehicles[j].position,
                             vehicles[j].destination).route = <<>>

\* C22: within a tick an agent perceives of the other agents their state as
\* of the end of the previous tick, never a mutation made by an agent that
\* stepped earlier in the same tick, so the vehicles a tick leaves do not
\* depend on the order in which the agents were activated.
C22_OrderIndependent ==
    LET NoVehicle == [vehicle_type |-> "none", origin |-> <<0, 0>>, destination |-> <<0, 0>>]
        ids == ScheduleIds(Model)
        Orders == {o \in [1..Cardinality(ids) -> ids] :
                      \A i, j \in 1..Cardinality(ids) : i # j => o[i] # o[j]}
    IN \A o1, o2 \in Orders :
          model_step(Model, o1, NoVehicle, "keep").vehicles
              = model_step(Model, o2, NoVehicle, "keep").vehicles

\* C23: every executed phase change turns the group that was green red and
\* the other group green, resets the timers of both groups to zero and
\* increments phase_changes by one; the green phase after the change
\* differs from the green phase before it.
C23_PhaseChangeFlips ==
    ix.last_change.called =>
        /\ \A d \in Directions :
              /\ ix.last_change.lights_before[d] = "green"
                    => ix.last_change.lights_after[d] = "red"
              /\ ix.last_change.lights_before[d] = "red"
                    => ix.last_change.lights_after[d] = "green"
              /\ ix.last_change.timers_after[d] = 0
        /\ ix.last_change.counted = 1
        /\ ix.last_change.lights_after # ix.last_change.lights_before

C25_AcceptedDirection ==
    \A i \in 1..Len(cm_sent), k \in 1..Len(observed) :
        (/\ cm_sent[i].msg.performative = "accept-proposal"
         /\ observed[k].to = cm_sent[i].to)
        => /\ Get(cm_sent[i].msg.content, "priority_direction", None)
                 = observed[k].msg.content.direction
           /\ \A timer \in {MinGreenTime - 1, MinGreenTime} :
                 LET s == [IntersectionAgent(cm_sent[i].to, IxPos, <<>>) EXCEPT
                             !.light_timers = [d \in Directions |-> timer]]
                     r == execute_cnp_task(Ctx(s, <<>>), cm_sent[i].msg).s
                 IN IF timer >= MinGreenTime
                    THEN GroupIsGreen(r.traffic_lights,
                                      observed[k].msg.content.direction)
                    ELSE r.traffic_lights = s.traffic_lights

----------------------------------------------------------------------------
(* The message router (SpecBus)                                            *)
(* The schedule holds the crisis manager at the centre of the grid, one    *)
(* intersection and three vehicles, of which vehicle_1 stands exactly      *)
(* 500 m from vehicle_0 and vehicle_2 eight metres further.  route_message *)
(* is called with messages of a few senders and receivers; observed holds  *)
(* the MessageRouter and the message of the last call.                     *)

MaxRouted == 2
BroadcastRadius == 50000

\* a broadcast that also reaches the sender's own inbox
route_message_to_all(rt, w, message) ==
    LET senders == SelectSeq(<<w.cm>> \o w.intersections \o w.vehicles,
                             LAMBDA a : a.unique_id = message.sender)
        Reached(a) ==
            IF message.receiver = "broadcast"
            THEN /\ senders # <<>>
                 /\ calculate_distance(senders[1].position, a.position) <= BroadcastRadius
            ELSE a.unique_id = message.receiver
        Receive(a) == IF Reached(a) THEN receive_message(a, message) ELSE a
    IN [rt |-> [rt EXCEPT
                  !.total_messages_routed = @ + 1,
                  !.messages_by_type =
                      [p \in DOMAIN @ \cup {message.performative} |->
                          IF p = message.performative
                          THEN Get(@, message.performative, 0) + 1 ELSE @[p]]],
        cm |-> Receive(w.cm),
        intersections |-> [i \in 1..Len(w.intersections) |-> Receive(w.intersections[i])],
        vehicles |-> [i \in 1..Len(w.vehicles) |-> Receive(w.vehicles[i])]]

\* MessageRouter.route_message with _unicast_message and _broadcast_message;
\* w holds the agents of the schedule, the result the router and the agents
route_message(rt, w, message) ==
        \* get_agent_by_id(message.sender), as a sequence of at most one agent
    LET senders == SelectSeq(<<w.cm>> \o w.intersections \o w.vehicles,
                             LAMBDA a : a.unique_id = message.sender)
        Reached(a) ==
            IF message.receiver = "broadcast"
            THEN /\ senders # <<>>
                 /\ a.unique_id # message.sender
                 /\ calculate_distance(senders[1].position, a.position) <= BroadcastRadius
            ELSE a.unique_id = message.receiver
        Receive(a) == IF Reached(a) THEN receive_message(a, message) ELSE a
    IN [rt |-> [rt EXCEPT
                  !.total_messages_routed = @ + 1,
                  !.messages_by_type =
                      [p \in DOMAIN @ \cup {message.performative} |->
                          IF p = message.performative
                          THEN Get(@, message.performative, 0) + 1 ELSE @[p]]],
        cm |-> Receive(w.cm),
        intersections |-> [i \in 1..Len(w.intersections) |-> Receive(w.intersections[i])],
        vehicles |-> [i \in 1..Len(w.vehicles) |-> Receive(w.vehicles[i])]]

BusInit ==
    /\ SimFrame
    /\ totals = [vehicles_created |-> 3, vehicles_arrived |-> 0]
    /\ intersections = <<IntersectionAgent(IxId, IxPos, <<>>)>>
    /\ vehicles = <<VehicleAgent("vehicle_0", <<0, 0>>, <<20000, 20000>>, 1000, "standard"),
                    VehicleAgent("vehicle_1", <<30000, 40000>>, <<20000, 20000>>, 1000,
                                 "standard"),
                    VehicleAgent("vehicle_2", <<30000, 41000>>, <<20000, 20000>>, 1000,
                                 "standard")>>
    /\ router = DynamicRouter(TRUE)
    /\ incident = <<>>
    /\ rush = [start_time |-> 0, duration |-> 0, options |-> {}, vehicles_created |-> 0]
        \* MessageRouter.__init__
    /\ observed = [message_router |-> [total_messages_routed |-> 0,
                                       messages_by_type |-> <<>>],
                   message |-> None]

\* one call of route_message
BusRoute(message) ==
    /\ observed.message_router.total_messages_routed < MaxRouted
    /\ \E r \in {route_message(observed.message_router,
                               [cm |-> cm, intersections |-> intersections,
                                vehicles |-> vehicles],
                               message)} :
          /\ cm' = r.cm
          /\ intersections' = r.intersections
          /\ vehicles' = r.vehicles
          /\ observed' = [message_router |-> r.rt, message |-> message]
    /\ UNCHANGED <<time_step, ixVars, cm_sent, cnp_props, cnp_next, road_network,
                   router, incident, rush, totals, requests, wrote_direct, same_tick,
                   routed>>

BusNext ==
    \E sender \in {"vehicle_0", IxId, CrisisId, ScenarioId},
       receiver \in {"broadcast", "vehicle_1", IxId, CrisisId, "vehicle_9"},
       performative \in {"inform", "request"} :
        BusRoute(FIPAMessage(sender, receiver, performative, [type |-> "congestion"], None))

SpecBus == BusInit /\ [][BusNext]_vars

\* C27: route_message delivers a unicast message to exactly the one agent
\* whose id equals the receiver and changes no inbox when there is none; it
\* delivers a broadcast message exactly once to every agent other than the
\* sender within 500 m of the sender's position and to no other agent; each
\* call increments the total counter and the counter of the message's
\* performative by one.
C27_Routing ==
    [][LET message == observed'.message
           before == <<cm>> \o intersections \o vehicles
           after == <<cm'>> \o intersections' \o vehicles'
           senders == {i \in 1..Len(before) : before[i].unique_id = message.sender}
           Gets(i) ==
               IF message.receiver = "broadcast"
               THEN /\ before[i].unique_id # message.sender
                    /\ \E k \in senders :
                          calculate_distance(before[k].position, before[i].position)
                              <= BroadcastRadius
               ELSE before[i].unique_id = message.receiver
       IN /\ Len(after) = Len(before)
          /\ \A i \in 1..Len(before) :
                /\ after[i].message_inbox =
                       IF Gets(i) THEN Append(before[i].message_inbox, message)
                       ELSE before[i].message_inbox
                /\ [after[i] EXCEPT !.message_inbox = <<>>]
                       = [before[i] EXCEPT !.message_inbox = <<>>]
          /\ message.receiver # "broadcast" =>
                Cardinality({i \in 1..Len(before) : Gets(i)}) <= 1
          /\ observed'.message_router.total_messages_routed
                = observed.message_router.total_messages_routed + 1
          /\ \A p \in {"inform", "request"} :
                Get(observed'.message_router.messages_by_type, p, 0)
                   = Get(observed.message_router.messages_by_type, p, 0)
                     + (IF p = message.performative THEN 1 ELSE 0)]_vars

\* a broadcast of vehicle_0 has reached the crisis manager, the intersection
\* and vehicle_1 at 500 m, not vehicle_2 at 508 m nor vehicle_0 itself, after
\* a message for an unknown receiver was counted and dropped
C27_Witness ==
    /\ observed.message_router.total_messages_routed = 2
    /\ observed.message.receiver = "broadcast"
    /\ observed.message.sender = "vehicle_0"
    /\ Len(cm.message_inbox) = 1
    /\ Len(intersections[1].message_inbox) = 1
    /\ Len(vehicles[1].message_inbox) = 0
    /\ Len(vehicles[2].message_inbox) = 1
    /\ Len(vehicles[3].message_inbox) = 0

\* C28: IncidentScenario.step triggers the incident exactly once, at the
\* first step whose simulated time is >= start_time, and resolves it exactly
\* once, at the first step whose simulated time is >= start_time + duration;
\* after the resolution every edge it removed is in the network again,
\* blocked_edges is empty, and no later step triggers the incident again.
C28_IncidentOnce ==
    [][LET sc == incident[1]
           after == incident'[1]
           t == current_step * time_step
           first_from(limit) == /\ t >= limit
                                /\ current_step = 0 \/ t - time_step < limit
           Edges(net) ==
               UNION {{<<net.nodes[i].id, net.nodes[i].neighbors[k].id,
                         net.nodes[i].neighbors[k].w>> :
                          k \in 1..Len(net.nodes[i].neighbors)} :
                      i \in 1..Len(net.nodes)}
           Grid == create_grid_network(RoadWidth, RoadHeight, CellSize)
           Removed == {<<after.blocked_edges[e][1], after.blocked_edges[e][2]>> :
                          e \in 1..Len(after.blocked_edges)}
           triggered == /\ ~sc.incident_active /\ ~sc.incident_resolved
                        /\ after.incident_active \/ after.incident_resolved
           resolved == ~sc.incident_resolved /\ after.incident_resolved
       IN /\ triggered <=> first_from(sc.incident_start_time)
          /\ resolved <=> first_from(sc.incident_end_time)
          /\ triggered =>
                /\ Removed # {}
                /\ \A x \in Edges(road_network') : <<x[1], x[2]>> \notin Removed
                /\ Edges(road_network') \subseteq Edges(road_network)
          /\ after.incident_resolved =>
                /\ Edges(road_network') = Edges(Grid)
                /\ after.blocked_edges = <<>>
                /\ ~after.incident_active
          /\ sc.incident_resolved => after = sc /\ road_network' = road_network]_vars

\* the incident was resolved two steps ago: the edges it removed are back, at
\* the end of their nodes' neighbour lists, and it has not been triggered
\* again
C28_Witness ==
    /\ incident[1].incident_resolved
    /\ ~incident[1].incident_active
    /\ incident[1].blocked_edges = <<>>
    /\ current_step * time_step > incident[1].incident_end_time + time_step
    /\ road_network # create_grid_network(RoadWidth, RoadHeight, CellSize)
    /\ \A i \in 1..Len(road_network.nodes) :
          Len(road_network.nodes[i].neighbors)
             = Len(create_grid_network(RoadWidth, RoadHeight, CellSize).nodes[i].neighbors)

\* C29: the route cache evicts in least-recently-used order: a cache hit
\* makes the hit entry the most recently used, so with a full cache, after a
\* hit on an entry, the next miss evicts some other entry and the entry just
\* hit is still cached.
C29_CacheLru ==
    [][LET CacheKeys(r) == {r.route_cache[i].key : i \in 1..Len(r.route_cache)}
       IN (/\ observed.last # <<>>
           /\ router.use_astar
           /\ observed.last.key \in CacheKeys(observed.last.before)
           /\ Len(router.route_cache) >= router.cache_size
           /\ router.cache_size > 1
           /\ observed'.last.key \notin CacheKeys(router)
           /\ observed'.last.key \in CacheKeys(router'))
          => observed.last.key \in CacheKeys(router')]_vars

----------------------------------------------------------------------------
(* Two routers on a hand-built network                                     *)
(* The network is built with add_node and add_edge over four sites: the    *)
(* nodes (0, 0), (0, 1), (50, 10) and (100, 0) and any of five roads       *)
(* between them. find_path is called on an AStarRouter and on a            *)
(* DijkstraRouter with the same positions; observed holds the Dijkstra     *)
(* router and both answers of the last call. Congestion factors are set    *)
(* on the A* router with update_traffic_weight.                            *)

MaxGraphQueries == 2
MaxTrafficEdges == 1

GraphInit ==
    LET Sites == << <<0, 0>>, <<0, 100>>, <<5000, 1000>>, <<10000, 0>> >>
        Roads == << <<1, 2>>, <<1, 3>>, <<2, 4>>, <<3, 4>>, <<1, 4>> >>
        RECURSIVE Nodes(_, _)
        Nodes(i, net) == IF i > Len(Sites) THEN net
                         ELSE Nodes(i + 1, add_node(net, Sites[i]))
        RECURSIVE Edges(_, _, _)
        Edges(i, chosen, net) ==
            IF i > Len(Roads) THEN net
            ELSE Edges(i + 1, chosen,
                       IF i \in chosen
                       THEN add_edge(net, NodeId(Sites[Roads[i][1]]),
                                     NodeId(Sites[Roads[i][2]]))
                       ELSE net)
    IN
    /\ cm_sent = <<>>
    /\ cnp_props = <<>>
    /\ cnp_next = 1
    /\ ix = IntersectionAgent(IxId, IxPos, <<N1>>)
    /\ use_q_learning = FALSE
    /\ current_step = 0
    /\ sent = <<>>
    /\ ix_vehicles = <<>>
    /\ delivered = 0
    /\ time_step = 1
    /\ requests = <<>>
    /\ wrote_direct = FALSE
    /\ same_tick = FALSE
    /\ routed = <<>>
    /\ cm = CrisisManagerAgent(CrisisId)
    /\ totals = [vehicles_created |-> 0, vehicles_arrived |-> 0]
    /\ vehicles = <<>>
    /\ intersections = <<>>
    /\ incident = <<>>
    /\ rush = [start_time |-> 0, duration |-> 0, options |-> {}, vehicles_created |-> 0]
    /\ \E chosen \in SUBSET (1..Len(Roads)) :
          road_network = Edges(1, chosen, Nodes(1, RoadNetwork))
    /\ router = DynamicRouter(TRUE)
    /\ observed = [count |-> 0, dijkstra |-> DynamicRouter(FALSE), last |-> <<>>]

\* DynamicRouter.find_path on the A* router and DijkstraRouter.find_path
\* from the node (0, 0) to a node
GraphFindPath ==
    /\ observed.count < MaxGraphQueries
    /\ \E a \in {1}, b \in 1..Len(road_network.nodes) :
          LET start_pos == road_network.nodes[a].position
              end_pos == road_network.nodes[b].position
              by_astar == find_path(router, road_network, start_pos, end_pos)
              by_dijkstra == calculate_route(observed.dijkstra, by_astar.net,
                                             start_pos, end_pos)
          IN /\ router' = by_astar.r
             /\ road_network' = by_astar.net
             /\ observed' = [count |-> observed.count + 1,
                             dijkstra |-> by_dijkstra.r,
                             last |-> [start_pos |-> start_pos,
                                       end_pos |-> end_pos,
                                       astar |-> by_astar.route,
                                       dijkstra |-> by_dijkstra.route]]
    /\ UNCHANGED <<time_step, ixVars, cnpVars, intersections, vehicles,
                   incident, rush, totals, requests, wrote_direct, same_tick, routed>>

\* DynamicRouter.update_traffic_weight on the A* router for a pair of nodes
\* with the node (0, 0), with a congestion factor of 2
GraphUpdateTraffic ==
    \E a \in {1}, b \in 1..Len(road_network.nodes), congestion_factor \in {2} :
       LET updated == update_traffic_weight(router, road_network.nodes[a].id,
                                            road_network.nodes[b].id, congestion_factor)
       IN /\ a < b
          /\ Len(updated.traffic_weights) <= MaxTrafficEdges
          /\ router' = updated
          /\ UNCHANGED <<time_step, ixVars, cnpVars, intersections, vehicles,
                         road_network, incident, rush, totals, requests, wrote_direct,
                         same_tick, routed, observed>>

SpecGraph == GraphInit /\ [][GraphFindPath \/ GraphUpdateTraffic]_vars

\* C30: on any finite weighted graph the path AStarRouter returns between the
\* snapped start and end nodes has the minimum total edge weight, the same
\* total weight as the path DijkstraRouter returns, whenever the end node is
\* reachable, and AStarRouter returns None exactly when it is not reachable.
C30_AStarMinimal ==
    LET net == road_network
        ids == {net.nodes[i].id : i \in 1..Len(net.nodes)}
        Joined(a, b) == HasNeighbor(NodeOf(net, a), b)
        EdgeWeight(a, b) ==
            IF a = b THEN 0
            ELSE LET ns == NodeOf(net, a).neighbors
                 IN ns[CHOOSE j \in 1..Len(ns) : ns[j].id = b].w
        \* the total edge weight of a path of node ids
        RECURSIVE Weight(_)
        Weight(p) == IF Len(p) < 2 THEN 0
                     ELSE EdgeWeight(p[1], p[2]) + Weight(Tail(p))
        \* the paths without a repeated node from a to b
        Paths(a, b) ==
            {p \in UNION {[1..n -> ids] : n \in 1..Cardinality(ids)} :
                /\ p[1] = a
                /\ p[Len(p)] = b
                /\ \A i, j \in 1..Len(p) : i # j => p[i] # p[j]
                /\ \A i \in 1..(Len(p) - 1) : Joined(p[i], p[i + 1])}
        Minimal(a, b, w) ==
            /\ \E p \in Paths(a, b) : Weight(p) = w
            /\ \A p \in Paths(a, b) : Weight(p) >= w
        \* the route as node ids; the positions asked are positions of nodes
        Ids(route) == [i \in 1..Len(route) |-> NodeId(route[i])]
    IN observed.count > 0 =>
          LET start_id == NodeId(observed.last.start_pos)
              end_id == NodeId(observed.last.end_pos)
          IN /\ (observed.last.astar = <<>>) <=> (Paths(start_id, end_id) = {})
             /\ observed.last.astar # <<>> =>
                   /\ observed.last.dijkstra # <<>>
                   /\ Weight(Ids(observed.last.astar))
                         = Weight(Ids(observed.last.dijkstra))
                   /\ Minimal(start_id, end_id, Weight(Ids(observed.last.astar)))

\* C31: DynamicRouter.find_path with consider_traffic computes the route on a
\* separate view: no call leaves the road network with another edge set or
\* another edge weight than it had before the call, however many calls were
\* made before (update_traffic_weight does not touch the network either).
C31_SeparateView ==
    [][road_network' = road_network]_vars

----------------------------------------------------------------------------
(* The Q-table of an intersection                                          *)
(* Q values and rewards are in millionths; the learning rate is 0.1 and    *)
(* the discount factor 0.9, so an update divides by 100, which is exact    *)
(* for the first three updates of a table of zeros with rewards in tenths. *)
(* observed holds the table, and the arguments and the table before the    *)
(* last call of _update_q_table.                                           *)

MaxQUpdates == 2

\* _update_q_table writing the new value to both actions of the state
update_q_table_row(q_table, state, action, reward, next_state) ==
    LET with_next == IF next_state \in DOMAIN q_table THEN q_table
                     ELSE Put(q_table, next_state, [change |-> 0, keep |-> 0])
        current_q == with_next[state][action]
        max_next_q == Max(with_next[next_state].change, with_next[next_state].keep)
        new_q == current_q + (10 * reward + 9 * max_next_q - 10 * current_q) \div 100
    IN Put(with_next, state, [change |-> new_q, keep |-> new_q])

\* IntersectionAgent._update_q_table
update_q_table(q_table, state, action, reward, next_state) ==
    LET with_next == IF next_state \in DOMAIN q_table THEN q_table
                     ELSE Put(q_table, next_state, [change |-> 0, keep |-> 0])
        current_q == with_next[state][action]
        max_next_q == Max(with_next[next_state].change, with_next[next_state].keep)
        \* current_q + learning_rate * (reward + discount_factor * max_next_q - current_q)
        new_q == current_q + (10 * reward + 9 * max_next_q - 10 * current_q) \div 100
    IN Put(with_next, state, [with_next[state] EXCEPT ![action] = new_q])

\* the table after the first decisions: a row of zeros for one state or for
\* two states
QInit ==
    /\ CnpIdle
    /\ IxIdle
    /\ SimIdle
    /\ time_step = 1
    /\ \E known \in {{"2_1_NS"}, {"2_1_NS", "1_2_EW"}} :
          observed = [count |-> 0,
                      q_table |-> [s \in known |-> [change |-> 0, keep |-> 0]],
                      last |-> <<>>]

\* _update_q_table(state, action, reward, next_state) for a state of the
\* table, with a reward of -1.0, 0, 0.1 or 5.0
QUpdate ==
    /\ observed.count < MaxQUpdates
    /\ \E state \in DOMAIN observed.q_table, action \in {"change", "keep"},
          reward \in {-1000000, 0, 100000, 5000000},
          next_state \in {"2_1_NS", "1_2_EW", "0_0_EW"} :
          observed' = [count |-> observed.count + 1,
                       q_table |-> update_q_table(observed.q_table, state, action,
                                                  reward, next_state),
                       last |-> [state |-> state, action |-> action, reward |-> reward,
                                 next_state |-> next_state, before |-> observed.q_table]]
    /\ UNCHANGED <<time_step, ixVars, cnpVars, simVars>>

SpecQ == QInit /\ [][QUpdate]_vars

C33_CongestionInRange ==
    /\ compute_congestion_level(vehicles) >= 0
    /\ compute_congestion_level(vehicles) <= 10000

\* C34: every intention created by deliberation in a tick goes pending, then
\* executing, then completed or failed within that tick, exactly one
\* action-history record is appended per executed intention, and after every
\* BDI step the agent's intention list holds no completed or failed
\* intention (nor one that is still pending or executing).
C34_IntentionLifecycle ==
    \A i \in 1..Len(vehicles) :
       LET v == vehicles[i]
       IN /\ \A k \in 1..Len(v.intention_log) :
                /\ Len(v.intention_log[k].statuses) = 3
                /\ v.intention_log[k].statuses[1] = "pending"
                /\ v.intention_log[k].statuses[2] = "executing"
                /\ v.intention_log[k].statuses[3] \in {"completed", "failed"}
          /\ Len(v.action_history) = Len(v.intention_log)
          /\ \A k \in 1..Len(v.action_history) :
                /\ v.action_history[k].intention = v.intention_log[k].type
                /\ v.action_history[k].success
                      <=> (v.intention_log[k].statuses[3] = "completed")
          /\ \A k \in 1..Len(v.intentions) :
                v.intentions[k].status \notin {"completed", "failed"}
          /\ v.intentions = <<>>

\* one vehicle's ChangeRoute intention has failed in the tick and another
\* vehicle's MoveForward intention has completed, each with one record
C34_Witness ==
    \E i, j \in 1..Len(vehicles) :
       /\ vehicles[i].intention_log
             = <<[type |-> "change_route",
                  statuses |-> <<"pending", "executing", "failed">>]>>
       /\ Len(vehicles[i].action_history) = 1
       /\ ~vehicles[i].action_history[1].success
       /\ vehicles[i].intentions = <<>>
       /\ vehicles[j].intention_log
             = <<[type |-> "move_forward",
                  statuses |-> <<"pending", "executing", "completed">>]>>
       /\ Len(vehicles[j].action_history) = 1
       /\ vehicles[j].action_history[1].success
       /\ vehicles[j].speed > 0

\* C35: an intersection sends an emergency_acknowledged inform naming
\* green_direction d only when the light of direction d is green at that
\* intersection at the moment the reply is sent: for every request handled
\* in the step and acknowledged, the light of the approach direction is green
\* when the handler has called _force_green.
C35_AckedDirectionGreen ==
    \A e \in 1..Len(ix.emergency_log) :
        (\E k \in 1..Len(sent) :
            /\ Get(sent[k].msg.content, "type", "") = "emergency_acknowledged"
            /\ sent[k].msg.content.green_direction = ix.emergency_log[e].approach)
        => ix.emergency_log[e].lights_after[ix.emergency_log[e].approach] = "green"

\* C36: proposals that answer calls for proposals issued for different
\* congested intersections are collected under different conversation keys:
\* the proposals stored under one key answer one call, the answers sent to
\* contractors of different calls carry different conversation ids, and a
\* contractor is answered only after another contractor of the same call
\* has proposed, so no proposal is arbitrated against one of another call.
C36_SeparateConversations ==
        \* the congested intersection of the call that the contractor received
    LET CallOf(contractor) ==
            {observed[k].msg.content.congested_intersection :
                k \in {n \in 1..Len(observed) : observed[n].to = contractor}}
    IN
        \* the answers of the arbitrations the crisis manager has made
    LET Answers == {i \in 1..Len(cm_sent) :
                       cm_sent[i].msg.performative
                           \in {"accept-proposal", "reject-proposal"}}
    IN
    /\ \A e \in 1..Len(cm.cnp_proposals) :
          \A p, q \in 1..Len(cm.cnp_proposals[e].proposals) :
             CallOf(cm.cnp_proposals[e].proposals[p].sender)
                 = CallOf(cm.cnp_proposals[e].proposals[q].sender)
    /\ \A i, j \in Answers :
          CallOf(cm_sent[i].to) # CallOf(cm_sent[j].to)
              => cm_sent[i].msg.conversation_id # cm_sent[j].msg.conversation_id
    /\ \A i \in Answers :
          \E p \in 1..(cnp_next - 1) :
             /\ cnp_props[p].sender # cm_sent[i].to
             /\ CallOf(cnp_props[p].sender) = CallOf(cm_sent[i].to)

----------------------------------------------------------------------------
(* A vehicle alone on the grid (SpecLone)                                  *)
(* One vehicle, created at (0, 0) with a route to (200 m, 200 m), is the   *)
(* only agent the scheduler activates; the network does not change. The    *)
(* clocks of the vehicle count up to MaxClock: a vehicle without           *)
(* neighbours and without a congestion belief reads them only to date its  *)
(* empty neighbour cache. The scheduler activates the vehicle in every     *)
(* tick for as long as it is active (weak fairness of LoneStep).           *)

MaxClock == 5

LoneInit ==
        \* max_speed of a car in the tests, a bus, a standard car, an ambulance
    LET LoneSpeeds == {1000, 1111, DefaultMaxSpeed, 2222}
    IN
    /\ SimFrame
    /\ intersections = <<>>
    /\ incident = <<>>
    /\ rush = [start_time |-> 0, duration |-> 0, options |-> {}, vehicles_created |-> 0]
    /\ observed = <<>>
    /\ totals = [vehicles_created |-> 1, vehicles_arrived |-> 0]
    /\ \E use_astar \in BOOLEAN, max_speed \in LoneSpeeds :
          \E first \in {calculate_route(DynamicRouter(use_astar), road_network,
                                        <<0, 0>>, <<20000, 20000>>)} :
             /\ vehicles = <<[VehicleAgent("vehicle_0", <<0, 0>>, <<20000, 20000>>,
                                           max_speed, "standard")
                              EXCEPT !.current_route = first.route]>>
             /\ router = first.r

\* VehicleAgent.step of the vehicle, activated while it is in the schedule
LoneStep ==
    LET Clocked(s) == [s EXCEPT !.current_time = Min(@, MaxClock),
                                !.travel_time = Min(@, MaxClock),
                                !.route_recalculation_timer = Min(@, MaxClock),
                                !.nearby_cache_time = Min(@, MaxClock)]
    IN
    /\ vehicles[1].active
    /\ \E c \in {veh_step(vehicles[1], router, World(Model))} :
          /\ vehicles' = <<Clocked(c.s)>>
          /\ router' = c.r
    /\ UNCHANGED <<time_step, ixVars, cnpVars, observed, intersections, road_network,
                   incident, rush, totals, requests, wrote_direct, same_tick,
                   routed>>

SpecLone == LoneInit /\ [][LoneStep]_vars /\ WF_vars(LoneStep)

\* C37: a vehicle that has a route to its destination over an unchanged
\* network, with no other vehicle nearby, eventually becomes inactive: it
\* comes within 10 m of its destination, whatever its max_speed.
C37_EventuallyInactive == <>(~vehicles[1].active)

----------------------------------------------------------------------------
(* Temporary blockages of the road network (SpecBlock)                     *)
(* Roads of the 3 x 3 grid are blocked until a simulated time and the      *)
(* network is polled with the simulated time of every tick. A pair of      *)
(* nodes is blocked only while no blockage of that pair is pending.        *)
(* observed holds, for every pending blockage, the weight the pair had     *)
(* before add_temporary_blockage (-1 without an edge), and the last poll.  *)

MaxBlockTime == 3
MaxBlockages == 2

\* the weight of the edge between two nodes as node1 holds it, -1 without one
EdgeWeightOf(net, node1_id, node2_id) ==
    LET at == {i \in 1..Len(NodeOf(net, node1_id).neighbors) :
                  NodeOf(net, node1_id).neighbors[i].id = node2_id}
    IN IF at = {} THEN -1
       ELSE NodeOf(net, node1_id).neighbors[CHOOSE i \in at : TRUE].w

\* the edges of the network with their weights, in both directions
EdgeSet(net) ==
    UNION {{<<net.nodes[i].id, net.nodes[i].neighbors[k].id, net.nodes[i].neighbors[k].w>> :
               k \in 1..Len(net.nodes[i].neighbors)} : i \in 1..Len(net.nodes)}

BlockInit ==
    /\ SimFrame
    /\ totals = [vehicles_created |-> 0, vehicles_arrived |-> 0]
    /\ vehicles = <<>>
    /\ intersections = <<>>
    /\ incident = <<>>
    /\ rush = [start_time |-> 0, duration |-> 0, options |-> {}, vehicles_created |-> 0]
    /\ router = DynamicRouter(TRUE)
    /\ observed = [before |-> <<>>, last |-> <<>>]

\* add_temporary_blockage(u, v, expiry) with an expiry later than now
BlockAdd ==
        \* two roads of the grid and a pair of nodes that no road joins
    LET BlockPairs == {<< <<0, 0>>, <<100, 0>> >>, << <<100, 0>>, <<100, 100>> >>,
                       << <<0, 0>>, <<100, 100>> >>}
        pending == Get(road_network, "temporary_blockages", <<>>)
    IN
    \E pair \in BlockPairs, expiry \in (current_step + 1)..MaxBlockTime :
       /\ Len(pending) < MaxBlockages
       /\ \A k \in 1..Len(pending) : <<pending[k][1], pending[k][2]>> # pair
       /\ road_network' = add_temporary_blockage(road_network, pair[1], pair[2],
                                                 expiry * time_step)
       /\ observed' = [before |-> Append(observed.before,
                                         EdgeWeightOf(road_network, pair[1], pair[2])),
                       last |-> <<>>]
       /\ UNCHANGED <<time_step, ixVars, cnpVars, intersections, vehicles, router,
                      incident, rush, totals, requests, wrote_direct, same_tick, routed>>

\* the tick's restore_expired_blockages(now)
BlockPoll ==
    LET pending == Get(road_network, "temporary_blockages", <<>>)
        now == (current_step + 1) * time_step
    IN
    /\ current_step < MaxBlockTime
    /\ current_step' = current_step + 1
    /\ road_network' = restore_expired_blockages(road_network, now)
    /\ observed' = [before |-> SelectSeq([k \in 1..Len(pending) |->
                                            IF now >= pending[k][3] THEN -2
                                            ELSE observed.before[k]],
                                        LAMBDA w : w # -2),
                    last |-> [now |-> now, pending |-> pending,
                              before |-> observed.before]]
    /\ UNCHANGED <<time_step, ix, use_q_learning, sent, ix_vehicles, delivered, cnpVars,
                   intersections, vehicles, router, incident, rush, totals, requests,
                   wrote_direct, same_tick, routed>>

SpecBlock == BlockInit /\ [][BlockAdd \/ BlockPoll]_vars

\* C38: after restore_expired_blockages(now), a pair blocked with
\* add_temporary_blockage(u, v, expiry) and expiry <= now has the edge it had
\* before the blockage, with the same weight, and no edge if it had none;
\* a pair with now < expiry has no edge and its blockage is still pending;
\* once no blockage is pending the network has the edges, with the
\* weights, of the network before the blockages.
C38_RoundTrip ==
    observed.last # <<>> =>
        /\ \A k \in 1..Len(observed.last.pending) :
              LET b == observed.last.pending[k]
              IN IF observed.last.now >= b[3]
                 THEN /\ EdgeWeightOf(road_network, b[1], b[2]) = observed.last.before[k]
                      /\ EdgeWeightOf(road_network, b[2], b[1]) = observed.last.before[k]
                 ELSE /\ EdgeWeightOf(road_network, b[1], b[2]) = -1
                      /\ EdgeWeightOf(road_network, b[2], b[1]) = -1
                      /\ \E j \in 1..Len(road_network.temporary_blockages) :
                            road_network.temporary_blockages[j] = b
        /\ ("temporary_blockages" \in DOMAIN road_network
               /\ road_network.temporary_blockages = <<>>)
              => EdgeSet(road_network)
                    = EdgeSet(create_grid_network(RoadWidth, RoadHeight, CellSize))

----------------------------------------------------------------------------
(* Vehicles created and harvested (SpecFleet)                              *)
(* The rush hour creates vehicles with short trips on the grid: one that   *)
(* is created within 10 m of its destination, one that drives 100 m along  *)
(* a road; no intersection, no incident.                                   *)

FleetInit ==
    LET FleetOptions ==
            {[vehicle_type |-> "standard", origin |-> <<0, 0>>,
              destination |-> <<0, 500>>],
             [vehicle_type |-> "standard", origin |-> <<10000, 0>>,
              destination |-> <<0, 0>>]}
    IN
    /\ SimFrame
    /\ totals = [vehicles_created |-> 0, vehicles_arrived |-> 0]
    /\ vehicles = <<>>
    /\ observed = <<>>
    /\ intersections = <<>>
    /\ incident = <<>>
    /\ \E use_astar \in BOOLEAN : router = DynamicRouter(use_astar)
    /\ \E start \in {0, 2} :
          rush = [start_time |-> start, duration |-> RushDuration + 1,
                  options |-> FleetOptions, vehicles_created |-> 0]

SpecFleet == FleetInit /\ [][SimNext]_vars

\* C39: after every model step total_vehicles_created is the number of
\* vehicles in the vehicle list plus total_vehicles_arrived, every vehicle
\* of the list, which is what the schedule activates, is active, and
\* total_vehicles_arrived has not decreased.
C39_VehicleAccounting ==
    [][/\ totals'.vehicles_created = Len(vehicles') + totals'.vehicles_arrived
       /\ \A i \in 1..Len(vehicles') : vehicles'[i].active
       /\ totals'.vehicles_arrived >= totals.vehicles_arrived]_vars

\* a step that harvests a vehicle while another one is still on its way,
\* after both were created by the rush hour
C39_Witness ==
    /\ totals.vehicles_created = 2
    /\ totals.vehicles_arrived >= 1
    /\ Len(vehicles) = 1
    /\ observed # <<>>

----------------------------------------------------------------------------
(* The ids of the messages of a run (SpecIds)                              *)
(* Messages are created and replied to while the clock of the machine runs *)
(* on: observed holds the reading of the clock in microseconds and the     *)
(* messages created so far. Between two constructions the clock advances   *)
(* by a few hundred microseconds or by more than a millisecond.            *)

MaxCreated == 3
MaxClockReading == 2500

IdsInit ==
    /\ CnpIdle
    /\ IxIdle
    /\ SimIdle
    /\ time_step = 1
    /\ observed = [clock |-> 0, created |-> <<>>]

\* time passes
IdsClock ==
    /\ \E elapsed \in {300, 1200} :
          /\ observed.clock + elapsed <= MaxClockReading
          /\ observed' = [observed EXCEPT !.clock = @ + elapsed]
    /\ UNCHANGED <<time_step, ixVars, cnpVars, simVars>>

\* FIPAMessage(sender, receiver, performative, content)
IdsCreate ==
    /\ Len(observed.created) < MaxCreated
    /\ \E sender \in {"vehicle_0", "crisis_manager"}, receiver \in {"intersection_0"} :
          observed' = [observed EXCEPT !.created = Append(@,
              FIPAMessage(sender, receiver, "request", [type |-> "test"], None)
                  @@ [ontology |-> None, protocol |-> None, reply_to |-> None,
                      message_id |-> message_id_at(observed.clock)])]
    /\ UNCHANGED <<time_step, ixVars, cnpVars, simVars>>

\* message.create_reply(performative, content) on a message created before
IdsReply ==
    /\ Len(observed.created) < MaxCreated
    /\ \E k \in 1..Len(observed.created) :
          observed' = [observed EXCEPT !.created = Append(@,
              create_reply(observed.created[k], "agree", [status |-> "ok"],
                           message_id_at(observed.clock)).reply)]
    /\ UNCHANGED <<time_step, ixVars, cnpVars, simVars>>

SpecIds == IdsInit /\ [][IdsClock \/ IdsCreate \/ IdsReply]_vars

\* C40: any two distinct messages created during a run have different
\* message_id values, and the reply_to of a reply is the message_id of
\* exactly one message of the run.
C40_UniqueMessageIds ==
    /\ \A i, j \in 1..Len(observed.created) :
          i # j => observed.created[i].message_id # observed.created[j].message_id
    /\ \A i \in 1..Len(observed.created) :
          observed.created[i].reply_to # None
              => Cardinality({j \in 1..Len(observed.created) :
                                 observed.created[j].message_id
                                     = observed.created[i].reply_to}) = 1

============================================================================
